---- MODULE Spec2Model ----
(***************************************************************************)
(* Self-healing observability core of lead-strategies-backend:             *)
(* EventBus, AlertManager, DiagnosticAgent, RepairAgent, LearningAgent.    *)
(*                                                                         *)
(* Handlers are async functions run by a single-threaded event loop: a     *)
(* handler runs without interruption up to an await of an external         *)
(* collaborator (database, Redis, reasoning backend, timer).  Each action  *)
(* below is one such uninterrupted run; EventEmitter.emit calls the        *)
(* subscribed handlers synchronously, so the part of a handler before its  *)
(* first external await belongs to the action that publishes the event.    *)
(* Fractions (confidence, success rate, thresholds) are in percent.        *)
(***************************************************************************)
EXTENDS Integers, Sequences, FiniteSets, Bags, TLC

\* ---------------------------------------------------------------- bounds
MaxAlerts == 2
MaxMirrored == 1
MaxSubs == 3
MaxPublishes == 2
MaxOutcomes == 4
MaxIPs == 1
MaxLogins == 6
MaxTime == 25
MaxShortTicks == 1
MaxProbes == 3
MaxPredictions == 3
MaxRuns == 2
MaxRecords == 4
MaxChain == 3
MaxStarts == 2
MaxFlushes == 2
MaxCalls == 7
MaxInFlight == 2
MaxClock == 5
\* CircuitBreaker's options, scaled from their defaults 5 and 30000 ms
failureThreshold == 2
resetTimeout == 1
\* MetricsStore.maxInMemoryPoints, 10000 in the constructor, scaled down.
maxInMemoryPoints == 2
\* persistToDb's slice(-100), scaled with it
persistWindow == 1

\* ------------------------------------------------------ program constants
confidenceThreshold == 80
escalationConfidence == 50
maxRetries == 3
minSuccessRate == 95
minOccurrences == 3
maxFailedLogins == 5
lockoutDuration == 1
ipBlockDuration == 24
apiResponseTime == 500
queryTime == 100
redisResponseTime == 50
\* Predictive Agent: confidence in percent, horizon in hours, usage in percent,
\* query time in ms; PREDICTIVE_MIN_DATA_POINTS set to 4 (24 when unset).
predictiveConfidenceThreshold == 70
forecastHorizon == 72
minDataPoints == 4
memoryUsage == 85
diskUsage == 90
slowQueryThreshold == 500
predictiveAnalysis == 5
trafficSpikeConfidence == 70
emailReputationConfidence == 60
defaultLimit == 100
\* execute: successCount >= 3
closeAfter == 3

Undefined == "undefined"

Severities == {"critical", "high", "medium", "low", "info"}

allowedFixes ==
  {"DATABASE_INDEX", "SERVICE_RESTART", "CACHE_CLEAR", "EMAIL_FAILOVER",
   "MEMORY_CLEANUP", "CONNECTION_POOL_EXPAND", "RATE_LIMIT_ADJUST"}

VARIABLES
  alerts,            \* AlertManager.alerts: id -> alert record
  isRedisMode,       \* EventBus.isRedisMode
  anthropic,         \* DiagnosticAgent.anthropic is set
  running,           \* agent name -> its running flag
  published,         \* bag of the events published on the bus (eventHistory)
  mirror,            \* bag of events Redis has still to deliver back
  mirrored,          \* number of events handed to Redis so far
  pendingDiagnoses,  \* DiagnosticAgent.pendingDiagnoses (alert ids)
  diagTasks,         \* bag of handleAlert invocations waiting in diagnose()
  diagnosisCache,    \* DiagnosticAgent.diagnosisCache: <<type, component>> -> diagnosis
  activeRepairs,     \* RepairAgent.activeRepairs (alert ids)
  repairTasks,       \* bag of handleRepairRequest invocations inside executeRepair
  repairHistory,     \* bag of RepairAgent.repairHistory entries
  patterns,          \* LearningAgent.patterns: symptom signature -> pattern
  learningQueue,     \* bag of LearningAgent.learningQueue entries
  subs,              \* bus under test: listeners of one channel, in subscription order
  received,          \* bus under test: per listener, the events it was called with
  publishLog,        \* bus under test: per publish, how the call ended
  fed,               \* number of events handed to one agent directly
  now,               \* Date.now(), in hours
  secRedis,          \* SecurityAgent.redis is set
  blockedIPs,        \* SecurityAgent.blockedIPs
  redisBlocks,       \* Redis keys blocked:ip:<ip>: ip -> expiry time (Permanent: none)
  failedLogins,      \* SecurityAgent.failedLogins: ip -> timestamps
  loginLimiter,      \* SecurityAgent.loginLimiter.requests: ip -> timestamps
  incidents,         \* bag of the incidents handleThreat has published
  verdict,           \* the last analyzeRequest call: its request and what it returned
  monitor,           \* MonitorAgent: running, db, redis, lastChecks
  learnTasks,        \* bag of learnFromRepair calls waiting at their first await
  repairStop,        \* RepairAgent.stop: "no" call yet, "waiting" in its sleep, "stopped"
  notifications,     \* AlertManager: notificationQueue and the items its drains are sending
  predictive,        \* PredictiveAgent: predictions in insertion order, the clock (minutes),
                     \* running, its timers and the analysis passes begun
  metrics,           \* MetricsStore.metrics (name -> samples in recording order), the
                     \* record calls made and the last query answered
  breaker            \* a CircuitBreaker: its fields, the clock and the calls in flight

vars == <<alerts, isRedisMode, anthropic, running, published, mirror, mirrored,
          pendingDiagnoses, diagTasks, diagnosisCache, activeRepairs, repairTasks,
          repairHistory, patterns, learningQueue, subs, received, publishLog, fed,
          now, secRedis, blockedIPs, redisBlocks, failedLogins, loginLimiter, incidents,
          verdict, monitor, learnTasks, repairStop, notifications, predictive, metrics,
          breaker>>

pipelineVars == <<alerts, isRedisMode, anthropic, running, published, mirror, mirrored,
          pendingDiagnoses, diagTasks, diagnosisCache, activeRepairs, repairTasks,
          repairHistory, patterns, learningQueue>>

busVars == <<subs, received, publishLog>>

\* The state outside the alert pipeline's first model, the Security Agent and
\* the Monitor Agent.
otherVars == <<learnTasks, repairStop, notifications, predictive, metrics, breaker>>

laterVars == <<repairStop, notifications, predictive, metrics, breaker>>

securityVars == <<now, secRedis, blockedIPs, redisBlocks, failedLogins, loginLimiter,
                  incidents, verdict>>

\* ------------------------------------------------------------- bag helpers
BagAdd(b, e) == b (+) SetToBag({e})
BagDel(b, e) == b (-) SetToBag({e})

\* ------------------------------------------------------------ diagnoses
NoDiagnosis ==
  [fixType |-> "none", autoFixable |-> FALSE, confidence |-> 0,
   severity |-> "none", diagnosedBy |-> "none", fromCache |-> FALSE,
   rootCause |-> FALSE]

Event(ch, aid, d, ok) ==
  [channel |-> ch, alertId |-> aid, diagnosis |-> d, success |-> ok]

\* ------------------------------------------------------------ AlertManager
\* determineSeverity: fixed critical/high types, then the value/threshold ratio.
determineSeverity(alertType, value, threshold) ==
  IF alertType \in {"API_DOWN", "DB_CONNECTION_ERROR", "SECURITY_THREAT", "SQL_INJECTION"}
    THEN "critical"
  ELSE IF alertType \in {"API_ERROR_RATE", "DB_POOL_EXHAUSTED", "BRUTE_FORCE",
                         "EMAIL_PROVIDER_DOWN"}
    THEN "high"
  ELSE IF value # 0 /\ threshold # 0 /\ value > 2 * threshold THEN "critical"
  ELSE IF value # 0 /\ threshold # 0 /\ 2 * value > 3 * threshold THEN "high"
  ELSE IF value # 0 /\ threshold # 0 /\ value > threshold THEN "medium"
  ELSE "low"

\* The calls the agents make: severity "" means that data.severity is not given.
MonitorCalls ==
  { [type |-> "DB_SLOW", component |-> "database", severity |-> "",
     value |-> 600, threshold |-> 100],
    [type |-> "MEMORY_HIGH", component |-> "system", severity |-> "",
     value |-> 90, threshold |-> 85],
    [type |-> "PROACTIVE_CLEANUP", component |-> "system", severity |-> "low",
     value |-> 0, threshold |-> 0] }

\* The record create() stores; count = 0 stands for the absent count field,
\* origin for metadata.originalAlert.id (0 when there is none).
NewAlert(call, origin) ==
  [type |-> call.type, component |-> call.component,
   severity |-> IF call.severity # "" THEN call.severity
                ELSE determineSeverity(call.type, call.value, call.threshold),
   acknowledged |-> FALSE, resolved |-> FALSE, autoResolved |-> FALSE,
   resolution |-> "", count |-> 0, origin |-> origin]

\* The payload create() publishes is {source, alert}: it has no type and no
\* component of its own.
AlertEventData(id) ==
  [source |-> "AlertManager", alert |-> id, type |-> Undefined, component |-> Undefined]

\* findRelatedAlert: the first alert, in insertion order, with the type and the
\* component of alertData that is unresolved; 0 when there is none.
findRelatedAlert(store, alertData) ==
  LET hits == {i \in DOMAIN store :
                 /\ store[i].type = alertData.type
                 /\ store[i].component = alertData.component
                 /\ ~store[i].resolved}
  IN IF hits = {} THEN 0 ELSE CHOOSE i \in hits : \A j \in hits : i <= j

\* processAlert: count = (count || 1) + 1 on the related unresolved alert.
processAlert(store, alertData) ==
  LET existing == findRelatedAlert(store, alertData)
  IN IF existing # 0 /\ ~store[existing].resolved
       THEN [store EXCEPT ![existing].count = (IF @ = 0 THEN 1 ELSE @) + 1]
       ELSE store

\* The occurrence count an alert shows: an absent count is one occurrence.
OccurrenceCount(a) == IF a.count = 0 THEN 1 ELSE a.count

\* resolve(alertId, {autoResolved, resolution})
resolve(store, id, autoResolved, resolution) ==
  [store EXCEPT ![id].resolved = TRUE,
                ![id].autoResolved = autoResolved,
                ![id].resolution = resolution]

\* acknowledge(alertId, userId)
acknowledge(store, id) == [store EXCEPT ![id].acknowledged = TRUE]

\* --------------------------------------------------------- DiagnosticAgent
\* ruleDiagnose's table; any other type gets the generic entry.
RuleTable(alertType) ==
  CASE alertType = "API_SLOW" ->
         [fixType |-> "CACHE_CLEAR", autoFixable |-> TRUE, confidence |-> 70]
    [] alertType = "API_DOWN" ->
         [fixType |-> "SERVICE_RESTART", autoFixable |-> TRUE, confidence |-> 80]
    [] alertType = "DB_SLOW" ->
         [fixType |-> "DATABASE_INDEX", autoFixable |-> TRUE, confidence |-> 75]
    [] alertType = "DB_CONNECTION_ERROR" ->
         [fixType |-> "CONNECTION_POOL_EXPAND", autoFixable |-> TRUE, confidence |-> 80]
    [] alertType = "MEMORY_HIGH" ->
         [fixType |-> "MEMORY_CLEANUP", autoFixable |-> TRUE, confidence |-> 85]
    [] alertType = "CPU_HIGH" ->
         [fixType |-> "MANUAL", autoFixable |-> FALSE, confidence |-> 60]
    [] alertType = "REDIS_SLOW" ->
         [fixType |-> "CACHE_CLEAR", autoFixable |-> TRUE, confidence |-> 70]
    [] alertType = "REDIS_DOWN" ->
         [fixType |-> "SERVICE_RESTART", autoFixable |-> TRUE, confidence |-> 80]
    [] alertType = "SECURITY_THREAT" ->
         [fixType |-> "MANUAL", autoFixable |-> FALSE, confidence |-> 90]
    [] OTHER ->
         [fixType |-> "MANUAL", autoFixable |-> FALSE, confidence |-> 50]

\* The alert types ruleDiagnose's table has an entry for.
RuleTypes ==
  {"API_SLOW", "API_DOWN", "DB_SLOW", "DB_CONNECTION_ERROR", "MEMORY_HIGH", "CPU_HIGH",
   "REDIS_SLOW", "REDIS_DOWN", "SECURITY_THREAT"}

ruleDiagnose(alert) ==
  LET rule == RuleTable(alert.type)
  IN [fixType |-> rule.fixType, autoFixable |-> rule.autoFixable,
      confidence |-> rule.confidence, severity |-> alert.severity,
      diagnosedBy |-> "rules", fromCache |-> FALSE, rootCause |-> TRUE]

\* What the reasoning backend may answer: a failure (the call throws, or the
\* text is no JSON), a parsed JSON diagnosis, a parsed JSON object that lacks
\* the rootCause of a diagnosis, or a diagnosis whose confidence is 1.5.
AIReplies ==
  { [ok |-> FALSE, rootCause |-> FALSE, fixType |-> "none", autoFixable |-> FALSE,
     confidence |-> 0],
    [ok |-> TRUE, rootCause |-> TRUE, fixType |-> "MEMORY_CLEANUP", autoFixable |-> TRUE,
     confidence |-> 30],
    [ok |-> TRUE, rootCause |-> TRUE, fixType |-> "DATABASE_INDEX", autoFixable |-> TRUE,
     confidence |-> 90],
    [ok |-> TRUE, rootCause |-> TRUE, fixType |-> "MANUAL", autoFixable |-> TRUE,
     confidence |-> 90],
    [ok |-> TRUE, rootCause |-> FALSE, fixType |-> "MANUAL", autoFixable |-> FALSE,
     confidence |-> 60],
    [ok |-> TRUE, rootCause |-> TRUE, fixType |-> "MANUAL", autoFixable |-> FALSE,
     confidence |-> 150] }

\* aiDiagnose: {...JSON.parse(content), diagnosedBy: 'ai'}; the catch block
\* returns ruleDiagnose.
aiDiagnose(alert, reply) ==
  IF reply.ok
    THEN [fixType |-> reply.fixType, autoFixable |-> reply.autoFixable,
          confidence |-> reply.confidence, severity |-> "high",
          diagnosedBy |-> "ai", fromCache |-> FALSE, rootCause |-> reply.rootCause]
    ELSE ruleDiagnose(alert)

\* generateHash({type, component}): the key of the diagnosis cache.
CacheKey(alert) == <<alert.type, alert.component>>

\* handleAlert up to its first await: running, not pending, severity above low.
AcceptsAlert(id, alert, pending) ==
  /\ running["Diagnostic"]
  /\ id \notin pending
  /\ alert.severity \notin {"info", "low"}

\* A variant that asks for a repair on confidence alone.
RequestsRepairOnConfidence(d) == d.confidence >= confidenceThreshold

\* handleAlert: confident and auto-fixable diagnoses ask for a repair ...
RequestsRepair(d) == d.confidence >= confidenceThreshold /\ d.autoFixable

\* ... and, when they do not, the ones below 0.5 are escalated.
Escalates(d) == ~RequestsRepair(d) /\ d.confidence < escalationConfidence

\* escalate(): the alertManager.create call it makes.
EscalationCall ==
  [type |-> "ESCALATION", component |-> "diagnostic", severity |-> "high",
   value |-> 0, threshold |-> 0]

\* ------------------------------------------------------------- RepairAgent
\* A variant that does not look at the allow-list.
AcceptsRepairOfAnyFix(alertId, d, active) ==
  /\ running["Repair"]
  /\ alertId \notin active

\* A variant that does not look at activeRepairs.
AcceptsRepairWhileActive(alertId, d, active) ==
  /\ running["Repair"]
  /\ d.fixType \in allowedFixes

\* handleRepairRequest up to the try block: running, no repair of this alert
\* in flight, fix type allowed.
AcceptsRepair(alertId, d, active) ==
  /\ running["Repair"]
  /\ alertId \notin active
  /\ d.fixType \in allowedFixes

\* What a fix handler can report: the handlers that touch the database or Redis
\* report failure when it is absent or the call throws, the others only succeed.
FixOutcomes(fixType) ==
  IF fixType \in {"DATABASE_INDEX", "CACHE_CLEAR", "MEMORY_CLEANUP", "RATE_LIMIT_ADJUST"}
    THEN {TRUE, FALSE}
    ELSE {TRUE}

\* verifyFix: sleeps, then returns true; it does not look at the component.
verifyFix(d, healthy) == TRUE

AutoResolution(d) == "Auto-fixed"

\* ----------------------------------------------------------- LearningAgent
OrUnknown(x) == IF x = Undefined THEN "unknown" ELSE x

\* The diagnoses ruleDiagnose and aiDiagnose build carry no alertType and no
\* component field.
DiagnosisField(d, field) ==
  IF field \in {"alertType", "component"} THEN Undefined ELSE d[field]

\* generateHash(symptoms), taken as injective on the symptom signature.
PatternHash(d) ==
  <<OrUnknown(DiagnosisField(d, "alertType")), OrUnknown(DiagnosisField(d, "component")),
    d.fixType, d.severity>>

\* A variant that asks for more than minOccurrences successes.
MeetsThresholdsStrictly(p) ==
  /\ p.successCount * 100 >= minSuccessRate * (p.successCount + p.failureCount)
  /\ p.successCount > minOccurrences

\* successRate >= minSuccessRate and successCount >= minOccurrences
MeetsThresholds(p) ==
  /\ p.successCount * 100 >= minSuccessRate * (p.successCount + p.failureCount)
  /\ p.successCount >= minOccurrences

\* A variant of learnFromRepair that leaves the stored successRate of an
\* existing pattern as it was.
learnFromRepairKeepingRate(pats, d, success) ==
  LET h == PatternHash(d)
  IN IF h \in DOMAIN pats
       THEN LET old == pats[h]
                sc == IF success THEN old.successCount + 1 ELSE old.successCount
                fc == IF success THEN old.failureCount ELSE old.failureCount + 1
                upd == [old EXCEPT !.successCount = sc, !.failureCount = fc,
                                   !.stale = FALSE]
            IN [pats EXCEPT ![h] =
                  IF MeetsThresholds(upd) /\ ~upd.autoFixEnabled
                    THEN [upd EXCEPT !.autoFixEnabled = TRUE]
                    ELSE upd]
       ELSE (h :> [successCount |-> IF success THEN 1 ELSE 0,
                   failureCount |-> IF success THEN 0 ELSE 1,
                   rateNum |-> IF success THEN 1 ELSE 0,
                   rateDen |-> 1,
                   autoFixEnabled |-> FALSE,
                   stale |-> FALSE]) @@ pats

\* learnFromRepair: update the pattern of the signature, or create it.
learnFromRepair(pats, d, success) ==
  LET h == PatternHash(d)
  IN IF h \in DOMAIN pats
       THEN LET old == pats[h]
                sc == IF success THEN old.successCount + 1 ELSE old.successCount
                fc == IF success THEN old.failureCount ELSE old.failureCount + 1
                upd == [old EXCEPT !.successCount = sc, !.failureCount = fc,
                                   !.rateNum = sc, !.rateDen = sc + fc,
                                   !.stale = FALSE]
            IN [pats EXCEPT ![h] =
                  IF MeetsThresholds(upd) /\ ~upd.autoFixEnabled
                    THEN [upd EXCEPT !.autoFixEnabled = TRUE]
                    ELSE upd]
       ELSE (h :> [successCount |-> IF success THEN 1 ELSE 0,
                   failureCount |-> IF success THEN 0 ELSE 1,
                   rateNum |-> IF success THEN 1 ELSE 0,
                   rateDen |-> 1,
                   autoFixEnabled |-> FALSE,
                   stale |-> FALSE]) @@ pats

\* handleRepairComplete queues every outcome and learns from it "if successful".
LearnsFrom(success) == success

\* consolidatePatterns' cleanup: drop the patterns that are old and weak.
Weak(p) == 2 * p.rateNum < p.rateDen

Prune(pats) ==
  LET keep == {h \in DOMAIN pats : ~(pats[h].stale /\ Weak(pats[h]))}
  IN [h \in keep |-> pats[h]]

\* ------------------------------------------------------------------ Redis
\* publish() hands each event to Redis when isRedisMode; a failed Redis publish
\* is caught and the event is then delivered locally only.  Redis delivers a
\* mirrored event back to the handlers subscribed through it.  Tracked for the
\* channels whose subscribers keep state: alert, repair-request, repair-complete.
MirrorChoices(events) ==
  IF isRedisMode
    THEN {ms \in SUBSET events : mirrored + Cardinality(ms) <= MaxMirrored}
    ELSE {{}}

\* ---------------------------------------------------------------- actions
\* AlertManager.create, with the handlers emit() runs on the alert channel:
\* AlertManager.handleIncomingAlert and DiagnosticAgent.handleAlert.
CreateAlert(store, pending, tasks, call, origin) ==
  LET id == Cardinality(DOMAIN store) + 1
      a == NewAlert(call, origin)
      stored == (id :> a) @@ store
      took == AcceptsAlert(id, a, pending)
  IN [store |-> processAlert(stored, AlertEventData(id)),
      pending |-> IF took THEN pending \cup {id} ELSE pending,
      tasks |-> IF took THEN BagAdd(tasks, [alertId |-> id, stage |-> "evidence"])
                ELSE tasks,
      event |-> Event("alert", id, NoDiagnosis, FALSE)]

Create(call) ==
  /\ Cardinality(DOMAIN alerts) < MaxAlerts
  /\ LET r == CreateAlert(alerts, pendingDiagnoses, diagTasks, call, 0)
     IN /\ alerts' = r.store
        /\ pendingDiagnoses' = r.pending
        /\ diagTasks' = r.tasks
        /\ published' = BagAdd(published, r.event)
        /\ \E ms \in MirrorChoices({r.event}) :
             /\ mirror' = mirror (+) SetToBag(ms)
             /\ mirrored' = mirrored + Cardinality(ms)
  /\ UNCHANGED <<isRedisMode, anthropic, running, diagnosisCache, activeRepairs,
                 repairTasks, repairHistory, patterns, learningQueue, busVars, securityVars, monitor, otherVars, fed>>

\* The management routes: POST /alerts/:id/acknowledge and /alerts/:id/resolve.
Acknowledge(id) ==
  /\ id \in DOMAIN alerts
  /\ alerts' = acknowledge(alerts, id)
  /\ UNCHANGED <<isRedisMode, anthropic, running, published, mirror, mirrored,
                 pendingDiagnoses, diagTasks, diagnosisCache, activeRepairs,
                 repairTasks, repairHistory, patterns, learningQueue, busVars, securityVars, monitor, otherVars, fed>>

Resolve(id) ==
  /\ id \in DOMAIN alerts
  /\ alerts' = resolve(alerts, id, FALSE, "manual")
  /\ UNCHANGED <<isRedisMode, anthropic, running, published, mirror, mirrored,
                 pendingDiagnoses, diagTasks, diagnosisCache, activeRepairs,
                 repairTasks, repairHistory, patterns, learningQueue, busVars, securityVars, monitor, otherVars, fed>>

\* handleAlert from the diagnosis on: publish it, then request a repair or
\* escalate, and in the end drop the alert from pendingDiagnoses.  The alert
\* store holds at most `room` alerts.
FinishDiagnosisWithin(t, d, cache, room) ==
  LET diagEv == Event("diagnosis", t.alertId, d, FALSE)
      reqEv == Event("repair-request", t.alertId, d, FALSE)
      tasks1 == BagDel(diagTasks, t)
      pend1 == pendingDiagnoses \ {t.alertId}
  IN /\ diagnosisCache' = cache
     /\ IF RequestsRepair(d)
          THEN LET took == AcceptsRepair(t.alertId, d, activeRepairs)
               IN /\ published' = BagAdd(BagAdd(published, diagEv), reqEv)
                  /\ activeRepairs' = IF took THEN activeRepairs \cup {t.alertId}
                                      ELSE activeRepairs
                  /\ repairTasks' =
                       IF took
                         THEN BagAdd(repairTasks,
                                [alertId |-> t.alertId, diagnosis |-> d, stage |-> "fix",
                                 healthy |-> FALSE])
                         ELSE repairTasks
                  /\ \E ms \in MirrorChoices({reqEv}) :
                       /\ mirror' = mirror (+) SetToBag(ms)
                       /\ mirrored' = mirrored + Cardinality(ms)
                  /\ diagTasks' = tasks1
                  /\ pendingDiagnoses' = pend1
                  /\ UNCHANGED alerts
        ELSE IF Escalates(d)
          THEN /\ Cardinality(DOMAIN alerts) < room
               /\ LET r == CreateAlert(alerts, pend1, tasks1, EscalationCall, t.alertId)
                  IN /\ alerts' = r.store
                     /\ pendingDiagnoses' = r.pending
                     /\ diagTasks' = r.tasks
                     /\ published' = BagAdd(BagAdd(published, diagEv), r.event)
                     /\ \E ms \in MirrorChoices({r.event}) :
                          /\ mirror' = mirror (+) SetToBag(ms)
                          /\ mirrored' = mirrored + Cardinality(ms)
               /\ UNCHANGED <<activeRepairs, repairTasks>>
        ELSE /\ published' = BagAdd(published, diagEv)
             /\ diagTasks' = tasks1
             /\ pendingDiagnoses' = pend1
             /\ UNCHANGED <<alerts, mirror, mirrored, activeRepairs, repairTasks>>
     /\ UNCHANGED <<isRedisMode, anthropic, running, repairHistory, patterns,
                    learningQueue, busVars, securityVars, monitor, otherVars, fed>>

FinishDiagnosis(t, d, cache) == FinishDiagnosisWithin(t, d, cache, MaxAlerts)

\* diagnose() throws after it has cached the diagnosis (truncate reads
\* diagnosis.rootCause.length): handleAlert's catch publishes the agent error
\* and its finally drops the alert from pendingDiagnoses.
FailDiagnosis(t, cache) ==
  /\ diagnosisCache' = cache
  /\ published' = BagAdd(published, Event("agent-error", t.alertId, NoDiagnosis, FALSE))
  /\ diagTasks' = BagDel(diagTasks, t)
  /\ pendingDiagnoses' = pendingDiagnoses \ {t.alertId}
  /\ UNCHANGED <<alerts, isRedisMode, anthropic, running, mirror, mirrored,
                 activeRepairs, repairTasks, repairHistory, patterns, learningQueue,
                 busVars, securityVars, monitor, otherVars, fed>>

\* diagnose() after collectEvidence: a fresh cache entry for the alert's
\* (type, component) is returned at once, else the reasoning path is entered.
DiagnoseWithin(t, room) ==
  /\ BagIn(t, diagTasks)
  /\ t.stage = "evidence"
  /\ LET key == CacheKey(alerts[t.alertId])
     IN IF key \in DOMAIN diagnosisCache
          THEN FinishDiagnosisWithin(t, [diagnosisCache[key] EXCEPT !.fromCache = TRUE],
                                     diagnosisCache, room)
          ELSE /\ diagTasks' = BagAdd(BagDel(diagTasks, t), [t EXCEPT !.stage = "reasoning"])
               /\ UNCHANGED <<alerts, isRedisMode, anthropic, running, published, mirror,
                              mirrored, pendingDiagnoses, diagnosisCache, activeRepairs,
                              repairTasks, repairHistory, patterns, learningQueue, busVars, securityVars, monitor, otherVars, fed>>

Diagnose(t) == DiagnoseWithin(t, MaxAlerts)

\* diagnose() once aiDiagnose or ruleDiagnose has answered: store, cache, return.
DiagnoseCompleteWithin(t, room) ==
  /\ BagIn(t, diagTasks)
  /\ t.stage = "reasoning"
  /\ LET alert == alerts[t.alertId]
         answers == IF anthropic THEN {aiDiagnose(alert, r) : r \in AIReplies}
                    ELSE {ruleDiagnose(alert)}
     IN \E d \in answers :
          IF d.rootCause
            THEN FinishDiagnosisWithin(t, d, (CacheKey(alert) :> d) @@ diagnosisCache, room)
            ELSE FailDiagnosis(t, (CacheKey(alert) :> d) @@ diagnosisCache)

DiagnoseComplete(t) == DiagnoseCompleteWithin(t, MaxAlerts)

\* checkCache ignores an entry older than five minutes.
CacheExpire(key) ==
  /\ key \in DOMAIN diagnosisCache
  /\ diagnosisCache' = [k \in DOMAIN diagnosisCache \ {key} |-> diagnosisCache[k]]
  /\ UNCHANGED <<alerts, isRedisMode, anthropic, running, published, mirror, mirrored,
                 pendingDiagnoses, diagTasks, activeRepairs, repairTasks, repairHistory,
                 patterns, learningQueue, busVars, securityVars, monitor, otherVars, fed>>

\* LearningAgent.handleRepairComplete, run by emit() on repair-complete.
handleRepairComplete(pats, queue, e) ==
  IF running["Learning"]
    THEN [patterns |-> IF LearnsFrom(e.success)
                         THEN learnFromRepair(pats, e.diagnosis, e.success)
                         ELSE pats,
          queue |-> BagAdd(queue, [alertId |-> e.alertId, diagnosis |-> e.diagnosis,
                                   success |-> e.success]),
          learned |-> LearnsFrom(e.success)]
    ELSE [patterns |-> pats, queue |-> queue, learned |-> FALSE]

\* A variant that reports a repair only when it succeeded.
RepairEventsOnSuccess(t, success) ==
  IF success
    THEN SetToBag({Event("repair-complete", t.alertId, t.diagnosis, success)})
    ELSE EmptyBag

\* What a repair publishes when it ends: the rollback event when the
\* verification failed (executeRollback), and repair-complete with the outcome.
RepairEvents(t, success) ==
  LET ev == Event("repair-complete", t.alertId, t.diagnosis, success)
      rolledBack == Event("rollback", t.alertId, t.diagnosis, FALSE)
  IN IF t.stage = "verify" /\ ~success
       THEN SetToBag({rolledBack, ev})
       ELSE SetToBag({ev})

\* A variant that resolves the alert whatever the outcome.
ResolveRepairedAlways(store, t, success) ==
  resolve(store, t.alertId, TRUE, AutoResolution(t.diagnosis))

\* handleRepairRequest: if (result.success) alertManager.resolve(alertId, ...).
ResolveRepaired(store, t, success) ==
  IF success THEN resolve(store, t.alertId, TRUE, AutoResolution(t.diagnosis))
  ELSE store

\* handleRepairRequest once executeRepair has returned: publish repair-complete,
\* resolve the alert when the repair succeeded, drop the alert from activeRepairs.
CompleteRepair(t, success) ==
  LET ev == Event("repair-complete", t.alertId, t.diagnosis, success)
      l == handleRepairComplete(patterns, learningQueue, ev)
      learnedEv == Event("pattern-learned", t.alertId, t.diagnosis, success)
      history == [alertId |-> t.alertId, repairType |-> t.diagnosis.fixType,
                  success |-> success]
      pub2 == published (+) RepairEvents(t, success)
  IN /\ repairHistory' = BagAdd(repairHistory, history)
     /\ published' = IF l.learned THEN BagAdd(pub2, learnedEv) ELSE pub2
     /\ patterns' = l.patterns
     /\ learningQueue' = l.queue
     /\ alerts' = ResolveRepaired(alerts, t, success)
     /\ activeRepairs' = activeRepairs \ {t.alertId}
     /\ repairTasks' = BagDel(repairTasks, t)
     /\ \E ms \in MirrorChoices({ev}) :
          /\ mirror' = mirror (+) SetToBag(ms)
          /\ mirrored' = mirrored + Cardinality(ms)
     /\ UNCHANGED <<isRedisMode, anthropic, running, pendingDiagnoses, diagTasks,
                    diagnosisCache, busVars, securityVars, monitor, otherVars, fed>>

\* executeRepair: the fix handler of the diagnosis' fix type has answered.  A
\* handler that reports success may or may not have made the component healthy
\* again; the task remembers which (healthy), for the verification to find out.
ExecuteFix(t) ==
  /\ BagIn(t, repairTasks)
  /\ t.stage = "fix"
  /\ \E ok \in FixOutcomes(t.diagnosis.fixType), health \in BOOLEAN :
       IF ok
         THEN /\ repairTasks' = BagAdd(BagDel(repairTasks, t),
                                       [t EXCEPT !.stage = "verify", !.healthy = health])
              /\ UNCHANGED <<alerts, isRedisMode, anthropic, running, published, mirror,
                             mirrored, pendingDiagnoses, diagTasks, diagnosisCache,
                             activeRepairs, repairHistory, patterns, learningQueue,
                             busVars, securityVars, monitor, otherVars, fed>>
         ELSE CompleteRepair(t, FALSE)

\* executeRepair: verifyFix has answered after its settle interval.
VerifyFix(t) ==
  /\ BagIn(t, repairTasks)
  /\ t.stage = "verify"
  /\ CompleteRepair(t, verifyFix(t.diagnosis, t.healthy))

\* Redis delivers a mirrored event to the handlers subscribed to its channel.
DeliverMirrored(e) ==
  /\ BagIn(e, mirror)
  /\ \/ /\ e.channel = "alert"
        /\ LET store == processAlert(alerts, AlertEventData(e.alertId))
               took == AcceptsAlert(e.alertId, alerts[e.alertId], pendingDiagnoses)
           IN /\ alerts' = store
              /\ pendingDiagnoses' = IF took THEN pendingDiagnoses \cup {e.alertId}
                                     ELSE pendingDiagnoses
              /\ diagTasks' = IF took
                                THEN BagAdd(diagTasks,
                                            [alertId |-> e.alertId, stage |-> "evidence"])
                                ELSE diagTasks
        /\ mirror' = BagDel(mirror, e)
        /\ UNCHANGED <<published, mirrored, activeRepairs, repairTasks, patterns,
                       learningQueue>>
     \/ /\ e.channel = "repair-request"
        /\ LET took == AcceptsRepair(e.alertId, e.diagnosis, activeRepairs)
           IN /\ activeRepairs' = IF took THEN activeRepairs \cup {e.alertId}
                                  ELSE activeRepairs
              /\ repairTasks' =
                   IF took
                     THEN BagAdd(repairTasks, [alertId |-> e.alertId,
                                               diagnosis |-> e.diagnosis, stage |-> "fix",
                                               healthy |-> FALSE])
                     ELSE repairTasks
        /\ mirror' = BagDel(mirror, e)
        /\ UNCHANGED <<alerts, published, mirrored, pendingDiagnoses, diagTasks, patterns,
                       learningQueue>>
     \/ /\ e.channel = "repair-complete"
        /\ LET l == handleRepairComplete(patterns, learningQueue, e)
               learnedEv == Event("pattern-learned", e.alertId, e.diagnosis, e.success)
           IN /\ patterns' = l.patterns
              /\ learningQueue' = l.queue
              /\ published' = IF l.learned THEN BagAdd(published, learnedEv) ELSE published
        /\ mirror' = BagDel(mirror, e)
        /\ UNCHANGED <<alerts, mirrored, pendingDiagnoses, diagTasks, activeRepairs,
                       repairTasks>>
  /\ UNCHANGED <<isRedisMode, anthropic, running, diagnosisCache, repairHistory, busVars, securityVars, monitor, otherVars, fed>>

\* Time passes: a pattern's lastAppliedAt falls behind the expiry window.
AgePattern(h) ==
  /\ h \in DOMAIN patterns
  /\ ~patterns[h].stale
  /\ patterns' = [patterns EXCEPT ![h].stale = TRUE]
  /\ UNCHANGED <<alerts, isRedisMode, anthropic, running, published, mirror, mirrored,
                 pendingDiagnoses, diagTasks, diagnosisCache, activeRepairs, repairTasks,
                 repairHistory, learningQueue, busVars, securityVars, monitor, otherVars, fed>>

\* LearningAgent.stop: clear the running flag, consolidate, unsubscribe.
StopLearning ==
  /\ running["Learning"]
  /\ running' = [running EXCEPT !["Learning"] = FALSE]
  /\ patterns' = Prune(patterns)
  /\ UNCHANGED <<alerts, isRedisMode, anthropic, published, mirror, mirrored,
                 pendingDiagnoses, diagTasks, diagnosisCache, activeRepairs, repairTasks,
                 repairHistory, learningQueue, busVars, securityVars, monitor, otherVars, fed>>

\* LearningAgent.start
StartLearning ==
  /\ ~running["Learning"]
  /\ running' = [running EXCEPT !["Learning"] = TRUE]
  /\ UNCHANGED <<alerts, isRedisMode, anthropic, published, mirror, mirrored,
                 pendingDiagnoses, diagTasks, diagnosisCache, activeRepairs, repairTasks,
                 repairHistory, patterns, learningQueue, busVars, securityVars, monitor, otherVars, fed>>

\* The periodic consolidation pass (setInterval in startConsolidation).
Consolidate ==
  /\ running["Learning"]
  /\ patterns' = Prune(patterns)
  /\ UNCHANGED <<alerts, isRedisMode, anthropic, running, published, mirror, mirrored,
                 pendingDiagnoses, diagTasks, diagnosisCache, activeRepairs, repairTasks,
                 repairHistory, learningQueue, busVars, securityVars, monitor, otherVars, fed>>

\* The repair-complete events a repair of one alert can end with: the rule
\* diagnoses of the monitor's alerts that ask for a repair, either outcome.
OutcomeEvents ==
  { Event("repair-complete", 1, ruleDiagnose(NewAlert(call, 0)), ok) :
      call \in {c \in MonitorCalls : RuleTable(c.type).autoFixable}, ok \in BOOLEAN }

\* The Learning Agent is handed a repair-complete event.
ReceiveOutcome(e) ==
  /\ fed < MaxOutcomes
  /\ fed' = fed + 1
  /\ LET l == handleRepairComplete(patterns, learningQueue, e)
         learnedEv == Event("pattern-learned", e.alertId, e.diagnosis, e.success)
     IN /\ patterns' = l.patterns
        /\ learningQueue' = l.queue
        /\ published' = IF l.learned THEN BagAdd(published, learnedEv) ELSE published
  /\ UNCHANGED <<alerts, isRedisMode, anthropic, running, mirror, mirrored,
                 pendingDiagnoses, diagTasks, diagnosisCache, activeRepairs, repairTasks,
                 repairHistory, busVars, securityVars, monitor, otherVars>>

\* A variant of the step after learnFromRepair's await that stores the pattern
\* as the call computed it before the await.
StoreAfterAwait(pats, t) == (PatternHash(t.diagnosis) :> t.pattern) @@ pats

\* The step after learnFromRepair's await writes nothing to the store: the
\* read, the increment and patterns.set all run before the first await.
StoreAsLeft(pats, t) == pats

\* handleRepairComplete up to the first await of learnFromRepair: queue the
\* outcome, update or create the pattern; the call then waits for Redis.
HandleOutcome(e) ==
  /\ fed < MaxOutcomes
  /\ fed' = fed + 1
  /\ LET l == handleRepairComplete(patterns, learningQueue, e)
     IN /\ patterns' = l.patterns
        /\ learningQueue' = l.queue
        /\ learnTasks' =
             IF l.learned
               THEN BagAdd(learnTasks,
                      [alertId |-> e.alertId, diagnosis |-> e.diagnosis,
                       success |-> e.success,
                       pattern |-> l.patterns[PatternHash(e.diagnosis)]])
               ELSE learnTasks
  /\ UNCHANGED <<alerts, isRedisMode, anthropic, running, published, mirror, mirrored,
                 pendingDiagnoses, diagTasks, diagnosisCache, activeRepairs, repairTasks,
                 repairHistory, busVars, securityVars, monitor, laterVars>>

\* learnFromRepair after its await: publish pattern-learned and return.
PublishLearned(t) ==
  /\ BagIn(t, learnTasks)
  /\ learnTasks' = BagDel(learnTasks, t)
  /\ patterns' = StoreAsLeft(patterns, t)
  /\ published' = BagAdd(published, Event("pattern-learned", t.alertId, t.diagnosis, t.success))
  /\ UNCHANGED <<alerts, isRedisMode, anthropic, running, mirror, mirrored,
                 pendingDiagnoses, diagTasks, diagnosisCache, activeRepairs, repairTasks,
                 repairHistory, learningQueue, busVars, securityVars, monitor, laterVars, fed>>

\* ----------------------------------------------------------- SecurityAgent
IPs == 1..MaxIPs

NoKey == [set |-> FALSE, permanent |-> FALSE, expires |-> 0]

\* A Redis key with a PX time to live is gone once the time has passed.
Live(key, at) == key.set /\ (key.permanent \/ at < key.expires)

\* A request is what its path and its body's string values contain: a quote,
\* a script tag, a percent-encoded script tag, a ../ step, a pipe, a percent
\* sign that starts no escape.
NoRequest == [path |-> {}, body |-> {}]

\* SecurityAgent's constructor; loadBlockedIPs finds an empty Redis.
SecurityStarted(redisClients) ==
  /\ now = 0
  /\ secRedis \in redisClients
  /\ blockedIPs = {}
  /\ redisBlocks = [ip \in IPs |-> NoKey]
  /\ failedLogins = [ip \in IPs |-> <<>>]
  /\ loginLimiter = [ip \in IPs |-> <<>>]
  /\ incidents = EmptyBag
  /\ verdict = [ip |-> 0, request |-> NoRequest, ipBlocked |-> FALSE, thrown |-> FALSE,
                blocked |-> FALSE, threatType |-> "none"]

\* handleThreat's switch: the mitigation of a threat type; duration 0 is a
\* permanent block.
Mitigation(threatType) ==
  CASE threatType \in {"SQL_INJECTION", "COMMAND_INJECTION"} ->
         [action |-> "BLOCK_IP_PERMANENT", blocks |-> TRUE, duration |-> 0]
    [] threatType \in {"XSS_ATTEMPT", "PATH_TRAVERSAL"} ->
         [action |-> "BLOCK_IP_24H", blocks |-> TRUE, duration |-> ipBlockDuration]
    [] threatType = "BRUTE_FORCE" ->
         [action |-> "BLOCK_IP_1H", blocks |-> TRUE, duration |-> lockoutDuration]
    [] OTHER ->
         [action |-> "none", blocks |-> FALSE, duration |-> 0]

\* The alertManager.create call handleThreat makes.
SecurityCall(severity) ==
  [type |-> "SECURITY_THREAT", component |-> "security", severity |-> severity,
   value |-> 0, threshold |-> 0]

\* The part of the state handleThreat works on.
SecurityState ==
  [blockedIPs |-> blockedIPs, redisBlocks |-> redisBlocks, incidents |-> incidents,
   alerts |-> alerts, pendingDiagnoses |-> pendingDiagnoses, diagTasks |-> diagTasks,
   published |-> published]

\* blockIP(ip, duration): add to the local set; with Redis, set the key, with a
\* time to live when the duration is positive.
blockIP(st, ip, duration) ==
  [st EXCEPT !.blockedIPs = @ \cup {ip},
             !.redisBlocks =
                IF secRedis
                  THEN [@ EXCEPT ![ip] = [set |-> TRUE, permanent |-> duration = 0,
                                          expires |-> now + duration]]
                  ELSE @]

\* handleThreat: mitigate, publish the incident, create the SECURITY_THREAT alert.
handleThreat(st, threatType, ip, severity) ==
  LET m == Mitigation(threatType)
      st1 == IF m.blocks THEN blockIP(st, ip, m.duration) ELSE st
      r == CreateAlert(st1.alerts, st1.pendingDiagnoses, st1.diagTasks,
                       SecurityCall(severity), 0)
  IN [st1 EXCEPT !.incidents = BagAdd(@, [type |-> threatType, ip |-> ip, at |-> now,
                                          mitigationAction |-> m.action,
                                          blocked |-> m.blocks]),
                 !.alerts = r.store,
                 !.pendingDiagnoses = r.pending,
                 !.diagTasks = r.tasks,
                 !.published = BagAdd(@, r.event)]

\* The state handleThreat leaves, with the Alert Manager's store within bounds.
SecurityUpdate(st) ==
  /\ Cardinality(DOMAIN st.alerts) <= MaxAlerts
  /\ blockedIPs' = st.blockedIPs
  /\ redisBlocks' = st.redisBlocks
  /\ incidents' = st.incidents
  /\ alerts' = st.alerts
  /\ pendingDiagnoses' = st.pendingDiagnoses
  /\ diagTasks' = st.diagTasks
  /\ published' = st.published

\* The threat patterns a request matches, in the order analyzeRequest tests them.
ThreatOrder == <<"SQL_INJECTION", "XSS_ATTEMPT", "PATH_TRAVERSAL", "COMMAND_INJECTION">>

ThreatSeverity(threatType) ==
  IF threatType \in {"SQL_INJECTION", "COMMAND_INJECTION"} THEN "critical" ELSE "high"

\* The requests analyzeRequest is given.
Requests ==
  { NoRequest,
    [path |-> {"'"}, body |-> {}],
    [path |-> {}, body |-> {"<script"}],
    [path |-> {"%3Cscript"}, body |-> {}],
    [path |-> {"../"}, body |-> {}],
    [path |-> {}, body |-> {"|"}],
    [path |-> {"../"}, body |-> {"'", "<script"}],
    [path |-> {"<script", "../"}, body |-> {"|"}],
    [path |-> {"%", "../"}, body |-> {}] }

\* decodeURIComponent(path): escapes decoded, URIError on a malformed one.
decodeURIComponent(path) ==
  [thrown |-> "%" \in path,
   path |-> IF "%3Cscript" \in path THEN (path \ {"%3Cscript"}) \cup {"<script"} ELSE path]

\* detectSQLInjection(path, body): the SQL pattern on the path and the body.
detectSQLInjection(request) == "'" \in request.path \cup request.body

\* detectXSS(path, body): the XSS pattern on the decoded path and the body.
detectXSS(request) == "<script" \in decodeURIComponent(request.path).path \cup request.body

\* THREAT_PATTERNS.PATH_TRAVERSAL.test(path)
detectPathTraversal(request) == "../" \in request.path

\* detectCommandInjection(body)
detectCommandInjection(request) == "|" \in request.body

\* The checks of analyzeRequest that match the request.
Matches(request) ==
  {t \in {"SQL_INJECTION", "XSS_ATTEMPT", "PATH_TRAVERSAL", "COMMAND_INJECTION"} :
     \/ t = "SQL_INJECTION" /\ detectSQLInjection(request)
     \/ t = "XSS_ATTEMPT" /\ detectXSS(request)
     \/ t = "PATH_TRAVERSAL" /\ detectPathTraversal(request)
     \/ t = "COMMAND_INJECTION" /\ detectCommandInjection(request)}

FirstThreat(matches) ==
  LET hits == {i \in 1..Len(ThreatOrder) : ThreatOrder[i] \in matches}
  IN ThreatOrder[CHOOSE i \in hits : \A j \in hits : i <= j]

\* analyzeRequest's first test: this.blockedIPs.has(ip).
TreatsAsBlocked(ip) == ip \in blockedIPs

\* What analyzeRequest does with a request of an IP that is not blocked:
\* the SQL check, then detectXSS, which decodes the path first, then the rest.
Outcome(request) ==
  IF detectSQLInjection(request)
    THEN [thrown |-> FALSE, threatType |-> "SQL_INJECTION"]
  ELSE IF decodeURIComponent(request.path).thrown
    THEN [thrown |-> TRUE, threatType |-> "none"]
  ELSE IF Matches(request) # {}
    THEN [thrown |-> FALSE, threatType |-> FirstThreat(Matches(request))]
  ELSE [thrown |-> FALSE, threatType |-> "none"]

\* analyzeRequest(request)
AnalyzeRequest(ip, request) ==
  /\ LET o == Outcome(request)
         said == [ip |-> ip, request |-> request, ipBlocked |-> TreatsAsBlocked(ip),
                  thrown |-> FALSE, blocked |-> TRUE, threatType |-> "BLOCKED_IP"]
     IN IF TreatsAsBlocked(ip)
          THEN /\ verdict' = said
               /\ UNCHANGED <<blockedIPs, redisBlocks, incidents, alerts, pendingDiagnoses,
                              diagTasks, published>>
          ELSE IF o.threatType # "none"
            THEN /\ SecurityUpdate(handleThreat(SecurityState, o.threatType, ip,
                                                ThreatSeverity(o.threatType)))
                 /\ verdict' = [said EXCEPT !.threatType = o.threatType]
            ELSE /\ verdict' = [said EXCEPT !.thrown = o.thrown, !.blocked = FALSE,
                                            !.threatType = "none"]
                 /\ UNCHANGED <<blockedIPs, redisBlocks, incidents, alerts,
                                pendingDiagnoses, diagTasks, published>>
  /\ UNCHANGED <<isRedisMode, anthropic, running, mirror, mirrored, diagnosisCache,
                 activeRepairs, repairTasks, repairHistory, patterns, learningQueue,
                 busVars, fed, now, secRedis, failedLogins, loginLimiter, monitor, otherVars>>

\* The timestamps of a list that fall in the window ending at `at`
\* (time > now - windowMs; now - timestamp < window).
Recent(times, at, window) == SelectSeq(times, LAMBDA t : t > at - window)

\* RateLimiter.isAllowed(key): whether the request is allowed, and the
\* requests map it leaves.
isAllowed(requests, key, at) ==
  LET keyRequests == Recent(requests[key], at, lockoutDuration)
  IN IF Len(keyRequests) >= maxFailedLogins
       THEN [allowed |-> FALSE, requests |-> requests]
       ELSE [allowed |-> TRUE,
             requests |-> [requests EXCEPT ![key] = Append(keyRequests, at)]]

\* recordFailedLogin(ip, userId, email)
RecordFailedLogin(ip) ==
  /\ Len(failedLogins[ip]) < MaxLogins
  /\ failedLogins' = [failedLogins EXCEPT ![ip] = Append(@, now)]
  /\ LET l == isAllowed(loginLimiter, ip, now)
     IN /\ loginLimiter' = l.requests
        /\ IF l.allowed
             THEN UNCHANGED <<blockedIPs, redisBlocks, incidents, alerts, pendingDiagnoses,
                              diagTasks, published>>
             ELSE SecurityUpdate(handleThreat(SecurityState, "BRUTE_FORCE", ip, "high"))
  /\ UNCHANGED <<isRedisMode, anthropic, running, mirror, mirrored, diagnosisCache,
                 activeRepairs, repairTasks, repairHistory, patterns, learningQueue,
                 busVars, fed, now, secRedis, verdict, monitor, otherVars>>

\* detectBruteForce: for each IP, keep the recent attempts, and handle a
\* BRUTE_FORCE threat when they reach maxFailedLogins and the IP is not blocked.
RECURSIVE detectBruteForce(_, _)
detectBruteForce(st, ips) ==
  IF ips = {} THEN st
  ELSE LET ip == CHOOSE i \in ips : \A j \in ips : i <= j
           recentAttempts == Recent(failedLogins[ip], now, lockoutDuration)
           st1 == IF Len(recentAttempts) >= maxFailedLogins /\ ip \notin st.blockedIPs
                    THEN handleThreat(st, "BRUTE_FORCE", ip, "high")
                    ELSE st
       IN detectBruteForce(st1, ips \ {ip})

\* cleanupExpiredBlocks: without Redis nothing; with it, keep the locally
\* blocked IPs whose key Redis still holds and clean the login limiter up.
cleanupExpiredBlocks(blocked, keys) ==
  IF secRedis THEN {ip \in blocked : Live(keys[ip], now)} ELSE blocked

\* runSecurityScan, every config.intervals.securityScan.
SecurityScan ==
  /\ LET st == detectBruteForce(SecurityState, IPs)
     IN /\ SecurityUpdate([st EXCEPT !.blockedIPs =
                                       cleanupExpiredBlocks(st.blockedIPs, st.redisBlocks)])
  /\ failedLogins' = [ip \in IPs |-> Recent(failedLogins[ip], now, lockoutDuration)]
  /\ loginLimiter' = IF secRedis
                       THEN [ip \in IPs |-> Recent(loginLimiter[ip], now, lockoutDuration)]
                       ELSE loginLimiter
  /\ UNCHANGED <<isRedisMode, anthropic, running, mirror, mirrored, diagnosisCache,
                 activeRepairs, repairTasks, repairHistory, patterns, learningQueue,
                 busVars, fed, now, secRedis, verdict, monitor, otherVars>>

\* Time passes: by the lockout duration or by the IP block duration.  The
\* clock is followed up to MaxTime, and within a block duration for
\* MaxShortTicks lockout durations.
Tick(d) ==
  /\ now + d <= MaxTime
  /\ (now + d) % ipBlockDuration <= MaxShortTicks * lockoutDuration
  /\ now' = now + d
  /\ UNCHANGED <<pipelineVars, busVars, fed, secRedis, blockedIPs, redisBlocks,
                 failedLogins, loginLimiter, incidents, verdict, monitor, otherVars>>

\* ------------------------------------------------------------ MonitorAgent
\* The probe loops with a connectivity probe and the keys they use in
\* lastChecks.
ProbeLoops == {"api", "database", "redis", "external"}

ProbeTargets(loop) ==
  CASE loop = "api" -> {"api:/health"}
    [] loop = "database" -> {"database"}
    [] loop = "redis" -> {"redis"}
    [] loop = "external" -> {"external:OpenAI"}

AllTargets == UNION {ProbeTargets(l) : l \in ProbeLoops}

\* The component the alerts of a loop carry.
ProbeComponent(loop) == loop

\* What a probe may do: answer after some milliseconds, or fail (the call
\* rejects, or the timeout ends it); after an answer, metricsStore.record may
\* resolve or reject.
ProbeOutcomes ==
  {[failed |-> FALSE, ms |-> t, recorded |-> TRUE] : t \in {20, 600}}
    \cup {[failed |-> TRUE, ms |-> 0, recorded |-> TRUE],
          [failed |-> FALSE, ms |-> 20, recorded |-> FALSE]}

NoCheck == [status |-> "none", timestamp |-> 0]

\* MonitorAgent's constructor, initialize({db, redis}) and start().
MonitorStarted(clients) ==
  \E c \in clients :
    monitor = [running |-> TRUE, db |-> c.db, redis |-> c.redis,
               lastChecks |-> [t \in AllTargets |-> NoCheck]]

MonitorClients == [db : BOOLEAN, redis : BOOLEAN]

\* The body of one probe of a loop: the alertManager.create call it makes
\* (type "" when it makes none) and the status it stores in lastChecks.
\* The external loop turns a rejected or aborted fetch into a null response
\* before its try block can see it, so that its catch block runs only for
\* another exception of the try block.
ProbeResult(loop, outcome) ==
  LET none == [type |-> "", component |-> "", severity |-> "", value |-> 0, threshold |-> 0]
      slow(type, limit) ==
        IF outcome.ms > limit
          THEN [type |-> type, component |-> ProbeComponent(loop), severity |-> "",
                value |-> outcome.ms, threshold |-> limit]
          ELSE none
      down(type, severity) ==
        [type |-> type, component |-> ProbeComponent(loop), severity |-> severity,
         value |-> 0, threshold |-> 0]
      caught == outcome.failed \/ ~outcome.recorded
  IN CASE loop = "api" ->
            IF caught
              THEN [call |-> down("API_DOWN", "critical"), status |-> "down"]
              ELSE [call |-> slow("API_SLOW", apiResponseTime), status |-> "healthy"]
       [] loop = "database" ->
            IF caught
              THEN [call |-> down("DB_CONNECTION_ERROR", "critical"), status |-> "down"]
              ELSE [call |-> slow("DB_SLOW", queryTime), status |-> "healthy"]
       [] loop = "redis" ->
            IF caught
              THEN [call |-> down("REDIS_DOWN", "high"), status |-> "down"]
              ELSE [call |-> slow("REDIS_SLOW", redisResponseTime), status |-> "healthy"]
       [] loop = "external" ->
            IF ~outcome.recorded
              THEN [call |-> down("EXTERNAL_API_DOWN", "medium"), status |-> "down"]
              ELSE IF outcome.failed
                THEN [call |-> none, status |-> "degraded"]
                ELSE [call |-> none, status |-> "healthy"]

\* Whether the interval callback of a loop probes at all.
Probes(loop) ==
  /\ monitor.running
  /\ loop = "database" => monitor.db
  /\ loop = "redis" => monitor.redis

\* One probe of one target by its loop's interval callback.
Probe(loop, target, outcome) ==
  /\ fed < MaxProbes
  /\ fed' = fed + 1
  /\ IF Probes(loop)
       THEN LET r == ProbeResult(loop, outcome)
            IN /\ monitor' = [monitor EXCEPT !.lastChecks[target] =
                                [status |-> r.status, timestamp |-> fed']]
               /\ IF r.call.type # ""
                    THEN LET c == CreateAlert(alerts, pendingDiagnoses, diagTasks, r.call, 0)
                         IN /\ Cardinality(DOMAIN alerts) < MaxAlerts
                            /\ alerts' = c.store
                            /\ pendingDiagnoses' = c.pending
                            /\ diagTasks' = c.tasks
                            /\ published' = BagAdd(published, c.event)
                    ELSE UNCHANGED <<alerts, pendingDiagnoses, diagTasks, published>>
       ELSE UNCHANGED <<monitor, alerts, pendingDiagnoses, diagTasks, published>>
  /\ UNCHANGED <<isRedisMode, anthropic, running, mirror, mirrored, diagnosisCache,
                 activeRepairs, repairTasks, repairHistory, patterns, learningQueue,
                 busVars, securityVars, otherVars>>

\* ------------------------------------------------------------ MetricsStore
MetricNames == {"memory_usage", "db_query_time"}

\* The value and tags of a record call; "" stands for the default tags {}.
Readings == {[value |-> 40, tags |-> ""], [value |-> 90, tags |-> "host"]}

\* No time given (null); the samples' timestamps start at 1.
NoTime == 0

NoAnswer == [kind |-> "none"]

\* MetricsStore's constructor: an empty map; get reads a name not in the
\* map as the empty list.
MetricsStarted ==
  [store |-> [n \in MetricNames |-> <<>>], log |-> <<>>, answer |-> NoAnswer,
   rows |-> <<>>, flushes |-> 0, flushedTo |-> 0]

\* The metric object record() builds, without its tags.
MetricUntagged(id, name, value, tags, at) ==
  [id |-> id, name |-> name, value |-> value, tags |-> "", timestamp |-> at]

\* The metric object record() builds.
Metric(id, name, value, tags, at) ==
  [id |-> id, name |-> name, value |-> value, tags |-> tags, timestamp |-> at]

\* A list left to grow.
KeepAll(list) == list

\* metricArray.shift() once the list is longer than maxInMemoryPoints.
Bounded(list) == IF Len(list) > maxInMemoryPoints THEN Tail(list) ELSE list

\* Array.prototype.slice(-limit): the last `limit` elements; -0 is 0, so a
\* limit of 0 gives the whole list.
slice(list, limit) ==
  IF limit = 0 \/ limit >= Len(list)
    THEN list
    ELSE SubSeq(list, Len(list) - limit + 1, Len(list))

\* get(name, {startTime, endTime, limit})
get(store, name, startTime, endTime, limit) ==
  LET all == store[name]
      fromStart == IF startTime # NoTime
                     THEN SelectSeq(all, LAMBDA m : m.timestamp >= startTime)
                     ELSE all
      toEnd == IF endTime # NoTime
                 THEN SelectSeq(fromStart, LAMBDA m : m.timestamp <= endTime)
                 ELSE fromStart
  IN slice(toEnd, limit)

RECURSIVE SeqMin(_)
SeqMin(s) ==
  IF Len(s) = 1 THEN Head(s)
  ELSE IF Head(s) < SeqMin(Tail(s)) THEN Head(s) ELSE SeqMin(Tail(s))

RECURSIVE SeqMax(_)
SeqMax(s) ==
  IF Len(s) = 1 THEN Head(s)
  ELSE IF Head(s) > SeqMax(Tail(s)) THEN Head(s) ELSE SeqMax(Tail(s))

\* getStats(name, options): null for no values, else the statistics (count,
\* min, max and latest of them kept here).
getStats(store, name, startTime, endTime, limit) ==
  LET found == get(store, name, startTime, endTime, limit)
      values == [i \in DOMAIN found |-> found[i].value]
  IN IF Len(values) = 0
       THEN [kind |-> "null"]
       ELSE [kind |-> "stats", name |-> name, count |-> Len(values),
             min |-> SeqMin(values), max |-> SeqMax(values),
             latest |-> values[Len(values)]]

\* record(name, value, options): push the metric, keep the list bounded,
\* publish the metric event.  The clock gives each call its own timestamp.
Record(name, reading) ==
  /\ Len(metrics.log) < MaxRecords
  /\ LET id == Len(metrics.log) + 1
         m == Metric(id, name, reading.value, reading.tags, id)
     IN metrics' =
          [metrics EXCEPT
             !.store = [metrics.store EXCEPT ![name] = Bounded(Append(@, m))],
             !.log = Append(metrics.log, [id |-> id, name |-> name,
                                          value |-> reading.value, tags |-> reading.tags]),
             !.answer = NoAnswer]
  /\ published' = BagAdd(published, Event("metric", 0, NoDiagnosis, FALSE))
  /\ UNCHANGED <<alerts, isRedisMode, anthropic, running, mirror, mirrored,
                 pendingDiagnoses, diagTasks, diagnosisCache, activeRepairs, repairTasks,
                 repairHistory, patterns, learningQueue, busVars, securityVars, monitor, breaker,
                 learnTasks, repairStop, notifications, predictive, fed>>

QueryTimes == 0..MaxRecords

QueryLimits == (0..(maxInMemoryPoints + 1)) \cup {defaultLimit}

\* A call of get; the answer is kept until the next record.
Get(name, startTime, endTime, limit) ==
  /\ metrics' = [metrics EXCEPT !.answer =
                   [kind |-> "get", name |-> name, startTime |-> startTime,
                    endTime |-> endTime, limit |-> limit,
                    found |-> get(metrics.store, name, startTime, endTime, limit)]]
  /\ UNCHANGED <<pipelineVars, busVars, securityVars, monitor, breaker, learnTasks, repairStop,
                 notifications, predictive, fed>>

\* A call of getStats with the default options.
GetStats(name) ==
  /\ metrics' = [metrics EXCEPT !.answer =
                   [kind |-> "getStats", name |-> name,
                    stats |-> getStats(metrics.store, name, NoTime, NoTime, defaultLimit)]]
  /\ UNCHANGED <<pipelineVars, busVars, securityVars, monitor, breaker, learnTasks, repairStop,
                 notifications, predictive, fed>>

\* persistToDb's batch: for every name in the map, its metrics.slice(-100).
RECURSIVE Batch(_, _)
Batch(store, names) ==
  IF names = {} THEN <<>>
  ELSE LET name == CHOOSE n \in names : TRUE
       IN Batch(store, names \ {name}) \o slice(store[name], persistWindow)

\* createMany({data, skipDuplicates: true}): with a unique key on the table
\* the rows that repeat one already there are skipped, without one every row
\* of the batch is inserted.  rows holds the id of the sample of each row.
createMany(rows, batch, uniqueKey) ==
  LET written == {rows[i] : i \in DOMAIN rows}
      data == [i \in DOMAIN batch |-> batch[i].id]
  IN rows \o (IF uniqueKey THEN SelectSeq(data, LAMBDA id : id \notin written) ELSE data)

\* One round of startAggregation's interval: persistToDb with a database.
PersistToDb(uniqueKey) ==
  /\ metrics.flushes < MaxFlushes
  /\ metrics' = [metrics EXCEPT
                   !.rows = createMany(@, Batch(metrics.store, MetricNames), uniqueKey),
                   !.flushes = @ + 1,
                   !.flushedTo = Len(metrics.log)]
  /\ UNCHANGED <<pipelineVars, busVars, securityVars, monitor, breaker, learnTasks, repairStop,
                 notifications, predictive, fed>>

\* ---------------------------------------------------------- CircuitBreaker
\* The constructor.  lastFailure = NoTime stands for null; calls counts the
\* calls that reached fn, inFlight those still awaiting it, entered the
\* successes seen in HALF_OPEN since the breaker last entered it.
BreakerStarted ==
  [state |-> "CLOSED", failures |-> 0, lastFailure |-> NoTime, successCount |-> 0,
   now |-> 1, calls |-> 0, inFlight |-> 0, entered |-> 0, rejected |-> 0]

\* A variant of recordFailure that also forgets the successes counted so far.
recordFailureForgetting(b) ==
  LET counted == [b EXCEPT !.failures = @ + 1, !.lastFailure = b.now,
                           !.successCount = 0]
  IN IF counted.failures >= failureThreshold
       THEN [counted EXCEPT !.state = "OPEN"]
       ELSE counted

\* recordFailure.
recordFailure(b) ==
  LET counted == [b EXCEPT !.failures = @ + 1, !.lastFailure = b.now]
  IN IF counted.failures >= failureThreshold
       THEN [counted EXCEPT !.state = "OPEN"]
       ELSE counted

\* reset.
reset(b) ==
  [b EXCEPT !.state = "CLOSED", !.failures = 0, !.successCount = 0,
            !.lastFailure = NoTime]

\* execute up to `await fn()`: an OPEN breaker turns HALF_OPEN once
\* resetTimeout has passed since the last failure, else it throws.
BreakerCall ==
  /\ breaker.calls < MaxCalls
  /\ breaker.inFlight < MaxInFlight
  /\ LET called == [breaker EXCEPT !.calls = @ + 1, !.inFlight = @ + 1]
     IN breaker' =
          IF breaker.state = "OPEN"
            THEN IF breaker.now - breaker.lastFailure > resetTimeout
                   THEN [called EXCEPT !.state = "HALF_OPEN", !.entered = 0]
                   ELSE [breaker EXCEPT !.rejected = 1]
            ELSE called
  /\ UNCHANGED <<pipelineVars, busVars, securityVars, monitor, learnTasks, repairStop,
                 notifications, predictive, metrics, fed>>

\* execute from the return of fn on: a success in HALF_OPEN is counted and
\* the third one resets the breaker; a failure is recorded.
BreakerSettle(ok) ==
  /\ breaker.inFlight > 0
  /\ LET back == [breaker EXCEPT !.inFlight = @ - 1]
     IN breaker' =
          IF ok
            THEN IF back.state = "HALF_OPEN"
                   THEN LET counted == [back EXCEPT !.successCount = @ + 1,
                                                    !.entered = @ + 1]
                        IN IF counted.successCount >= closeAfter
                             THEN reset(counted)
                             ELSE counted
                   ELSE back
            ELSE recordFailure(back)
  /\ UNCHANGED <<pipelineVars, busVars, securityVars, monitor, learnTasks, repairStop,
                 notifications, predictive, metrics, fed>>

\* Date.now() moves on.
BreakerTick ==
  /\ breaker.now < MaxClock
  /\ breaker' = [breaker EXCEPT !.now = @ + 1]
  /\ UNCHANGED <<pipelineVars, busVars, securityVars, monitor, learnTasks, repairStop,
                 notifications, predictive, metrics, fed>>

Agents == {"Diagnostic", "Repair", "Learning"}

\* The state once the system has started, loadPatterns having filled the
\* pattern store with one of `stores`.
PipelineStarted(redisModes, backends, stores) ==
  /\ alerts = <<>>
  /\ isRedisMode \in redisModes
  /\ anthropic \in backends
  /\ running = [a \in Agents |-> TRUE]
  /\ published = EmptyBag
  /\ mirror = EmptyBag
  /\ mirrored = 0
  /\ pendingDiagnoses = {}
  /\ diagTasks = EmptyBag
  /\ diagnosisCache = <<>>
  /\ activeRepairs = {}
  /\ repairTasks = EmptyBag
  /\ repairHistory = EmptyBag
  /\ patterns \in stores
  /\ learningQueue = EmptyBag
  /\ learnTasks = EmptyBag
  /\ repairStop = "no"
  /\ notifications = [queue |-> <<>>, sending |-> EmptyBag]
  /\ predictive = [now |-> 0, predictions |-> <<>>, running |-> TRUE, interval |-> TRUE,
                   initial |-> 1, starts |-> 1, passes |-> <<>>]
  /\ metrics = MetricsStarted
  /\ breaker = BreakerStarted
  /\ subs = <<>>
  /\ received = <<>>
  /\ publishLog = <<>>
  /\ fed = 0

\* The state once the system has started with an empty pattern store.
CoreStarted(redisModes, backends) == PipelineStarted(redisModes, backends, {<<>>})

Started(redisModes, backends) ==
  /\ CoreStarted(redisModes, backends)
  /\ SecurityStarted({FALSE})
  /\ MonitorStarted({[db |-> TRUE, redis |-> TRUE]})

Init == Started(BOOLEAN, BOOLEAN)

\* The whole pipeline: alert -> diagnosis -> repair -> learning.
Next ==
  \/ \E call \in MonitorCalls : Create(call)
  \/ \E t \in BagToSet(diagTasks) : Diagnose(t)
  \/ \E t \in BagToSet(diagTasks) : DiagnoseComplete(t)
  \/ \E key \in DOMAIN diagnosisCache : CacheExpire(key)
  \/ \E t \in BagToSet(repairTasks) : ExecuteFix(t)
  \/ \E t \in BagToSet(repairTasks) : VerifyFix(t)
  \/ \E e \in BagToSet(mirror) : DeliverMirrored(e)

Spec == Init /\ [][Next]_vars

\* The pipeline together with the management routes.
NextManaged ==
  \/ Next
  \/ \E id \in DOMAIN alerts : Acknowledge(id)
  \/ \E id \in DOMAIN alerts : Resolve(id)

SpecManaged == Init /\ [][NextManaged]_vars

\* The Diagnostic Agent, its repair requests left unserved.
InitDiagnostic == Started(BOOLEAN, {TRUE})

NextDiagnostic ==
  \/ \E call \in MonitorCalls : Create(call)
  \/ \E t \in BagToSet(diagTasks) : Diagnose(t)
  \/ \E t \in BagToSet(diagTasks) : DiagnoseComplete(t)
  \/ \E key \in DOMAIN diagnosisCache : CacheExpire(key)
  \/ \E e \in BagToSet(mirror) : DeliverMirrored(e)

SpecDiagnostic == InitDiagnostic /\ [][NextDiagnostic]_vars

\* The Diagnostic Agent within the five minutes its cache entries live.
NextDiagnosticCached ==
  \/ \E call \in MonitorCalls : Create(call)
  \/ \E t \in BagToSet(diagTasks) : Diagnose(t)
  \/ \E t \in BagToSet(diagTasks) : DiagnoseComplete(t)
  \/ \E e \in BagToSet(mirror) : DeliverMirrored(e)

SpecDiagnosticCached == InitDiagnostic /\ [][NextDiagnosticCached]_vars

\* The Diagnostic Agent under a fair event loop, either backend: collectEvidence
\* and the rule table always answer, and a mirrored message is delivered.
\* anthropic.messages.create is awaited with no timer beside it (withTimeout
\* is not used), so nothing makes a pending reasoning call return.
RuleAnswers ==
  /\ ~anthropic
  /\ \E t \in BagToSet(diagTasks) : DiagnoseComplete(t)

InitDiagnosticFair == Started(BOOLEAN, BOOLEAN)

SpecDiagnosticFair ==
  /\ InitDiagnosticFair /\ [][NextDiagnosticCached]_vars
  /\ WF_vars(\E t \in BagToSet(diagTasks) : Diagnose(t))
  /\ WF_vars(RuleAnswers)
  /\ WF_vars(\E e \in BagToSet(mirror) : DeliverMirrored(e))

\* The Diagnostic Agent on the in-memory bus within the life of its cache
\* entries, with room in the alert store for the escalation alerts that
\* follow the monitored ones.
InitEscalation == Started({FALSE}, BOOLEAN)

NextEscalation ==
  \/ \E call \in MonitorCalls : Create(call)
  \/ \E t \in BagToSet(diagTasks) : DiagnoseWithin(t, MaxChain)
  \/ \E t \in BagToSet(diagTasks) : DiagnoseCompleteWithin(t, MaxChain)

SpecEscalation == InitEscalation /\ [][NextEscalation]_vars

\* The rule-diagnosed pipeline over Redis: every event may come back once more.
InitRepair == Started({TRUE}, {FALSE})

NextRepair ==
  \/ \E call \in MonitorCalls : Create(call)
  \/ \E t \in BagToSet(diagTasks) : Diagnose(t)
  \/ \E t \in BagToSet(diagTasks) : DiagnoseComplete(t)
  \/ \E t \in BagToSet(repairTasks) : ExecuteFix(t)
  \/ \E t \in BagToSet(repairTasks) : VerifyFix(t)
  \/ \E e \in BagToSet(mirror) : DeliverMirrored(e)

SpecRepair == InitRepair /\ [][NextRepair]_vars

\* The diagnoses of an alert that handleAlert sends on as a repair request,
\* from the rule table or from the reasoning backend.
RequestDiagnoses(alert) ==
  {d \in {ruleDiagnose(alert)} \cup {aiDiagnose(alert, r) : r \in AIReplies} :
     RequestsRepair(d)}

\* RepairAgent.handleRepairRequest, run by emit() on a repair-request event.
ReceiveRequest(a, d) ==
  /\ fed < MaxPublishes
  /\ fed' = fed + 1
  /\ published' = BagAdd(published, Event("repair-request", a, d, FALSE))
  /\ LET took == AcceptsRepair(a, d, activeRepairs)
     IN /\ activeRepairs' = IF took THEN activeRepairs \cup {a} ELSE activeRepairs
        /\ repairTasks' =
             IF took
               THEN BagAdd(repairTasks, [alertId |-> a, diagnosis |-> d, stage |-> "fix",
                                         healthy |-> FALSE])
               ELSE repairTasks
  /\ UNCHANGED <<alerts, isRedisMode, anthropic, running, mirror, mirrored,
                 pendingDiagnoses, diagTasks, diagnosisCache, repairHistory, patterns,
                 learningQueue, busVars, securityVars, monitor, otherVars>>

\* The Repair Agent over any sequence of repair requests for the alerts raised,
\* the diagnoses of the alerts left unserved.
InitRepairAgent == Started({FALSE}, {FALSE})

NextRepairAgent ==
  \/ \E call \in MonitorCalls : Create(call)
  \/ \E a \in DOMAIN alerts : \E d \in RequestDiagnoses(alerts[a]) : ReceiveRequest(a, d)
  \/ \E t \in BagToSet(repairTasks) : ExecuteFix(t)
  \/ \E t \in BagToSet(repairTasks) : VerifyFix(t)

SpecRepairAgent == InitRepairAgent /\ [][NextRepairAgent]_vars

\* The same, with every fix handler call and every settle timer ending: the
\* handlers await the database and Redis clients, verifyFix a 2 s timer.
SpecRepairAgentFair ==
  /\ SpecRepairAgent
  /\ WF_vars(\E t \in BagToSet(repairTasks) : ExecuteFix(t))
  /\ WF_vars(\E t \in BagToSet(repairTasks) : VerifyFix(t))

\* RepairAgent.stop waits only when a repair is in flight (activeRepairs.size > 0).
StopAtOnce(active) == FALSE

StopWaits(active) == active # {}

\* The end of RepairAgent.stop: unsubscribe, publish agent-stopped.
Halt ==
  /\ repairStop' = "stopped"
  /\ published' = BagAdd(published, Event("agent-stopped", 0, NoDiagnosis, FALSE))

\* RepairAgent.stop up to its first await: clear the running flag, then either
\* start the 5 s sleep or, with no repair in flight, go on to the halt.
StopRepair ==
  /\ running["Repair"]
  /\ running' = [running EXCEPT !["Repair"] = FALSE]
  /\ IF StopWaits(activeRepairs)
       THEN repairStop' = "waiting" /\ UNCHANGED published
       ELSE Halt
  /\ UNCHANGED <<alerts, isRedisMode, anthropic, mirror, mirrored, pendingDiagnoses,
                 diagTasks, diagnosisCache, activeRepairs, repairTasks, repairHistory,
                 patterns, learningQueue, busVars, securityVars, monitor, breaker, learnTasks,
                 notifications, predictive, metrics, fed>>

\* The sleep(5000) of RepairAgent.stop is over: stop goes on to the halt,
\* whatever the repairs in flight have reached.
GraceEnds ==
  /\ repairStop = "waiting"
  /\ Halt
  /\ UNCHANGED <<alerts, isRedisMode, anthropic, running, mirror, mirrored,
                 pendingDiagnoses, diagTasks, diagnosisCache, activeRepairs, repairTasks,
                 repairHistory, patterns, learningQueue, busVars, securityVars, monitor, breaker,
                 learnTasks, notifications, predictive, metrics, fed>>

\* The Repair Agent with a stop call at any moment, the requests those of
\* the rule table.
NextRepairStop ==
  \/ \E call \in MonitorCalls : Create(call)
  \/ \E a \in DOMAIN alerts :
       RequestsRepair(ruleDiagnose(alerts[a])) /\ ReceiveRequest(a, ruleDiagnose(alerts[a]))
  \/ \E t \in BagToSet(repairTasks) : ExecuteFix(t)
  \/ \E t \in BagToSet(repairTasks) : VerifyFix(t)
  \/ StopRepair
  \/ GraceEnds

SpecRepairStop == InitRepairAgent /\ [][NextRepairStop]_vars

\* The same with the timers firing and the fix handlers returning.
SpecRepairStopFair ==
  /\ SpecRepairStop
  /\ WF_vars(GraceEnds)
  /\ WF_vars(\E t \in BagToSet(repairTasks) : ExecuteFix(t))
  /\ WF_vars(\E t \in BagToSet(repairTasks) : VerifyFix(t))

\* ---------------------------------------------- AlertManager notifications
\* queueNotification: push the alert with no attempt made.
queueNotification(n, id) ==
  [n EXCEPT !.queue = Append(@, [alertId |-> id, attempts |-> 0])]

\* The `item.attempts < 3` of processNotifications' catch block.
RetriesForever(item) == TRUE

Retries(item) == item.attempts < maxRetries

\* How the sends of one alert can end: sendSlackNotification is called for
\* critical and high alerts, sendPagerDutyNotification for critical ones, and
\* both throw on a failed request; sendEmailNotification only logs.
DeliveryOutcomes(alert) ==
  IF alert.severity \in {"critical", "high"} THEN BOOLEAN ELSE {TRUE}

\* The head of processNotifications' while loop: shift the next item and
\* start sending it, or leave the loop when the queue is empty.
NextItem(n) ==
  IF n.queue = <<>>
    THEN n
    ELSE [queue |-> Tail(n.queue), sending |-> BagAdd(n.sending, Head(n.queue))]

\* AlertManager.create followed by its queueNotification.
CreateNotified(call) ==
  /\ Cardinality(DOMAIN alerts) < MaxAlerts
  /\ LET r == CreateAlert(alerts, pendingDiagnoses, diagTasks, call, 0)
     IN /\ alerts' = r.store
        /\ pendingDiagnoses' = r.pending
        /\ diagTasks' = r.tasks
        /\ published' = BagAdd(published, r.event)
        /\ notifications' = queueNotification(notifications, r.event.alertId)
  /\ UNCHANGED <<isRedisMode, anthropic, running, mirror, mirrored, diagnosisCache,
                 activeRepairs, repairTasks, repairHistory, patterns, learningQueue,
                 busVars, securityVars, monitor, breaker, learnTasks, repairStop, predictive,
                 metrics, fed>>

\* A call of processNotifications by the 5 s interval of startProcessor (or by
\* shutdown) that finds the queue filled.
ProcessNotifications ==
  /\ notifications.queue # <<>>
  /\ notifications' = NextItem(notifications)
  /\ UNCHANGED <<pipelineVars, busVars, securityVars, monitor, breaker, learnTasks, repairStop,
                 predictive, metrics, fed>>

\* The sends of one item end: on failure the item goes back to the end of the
\* queue with one more attempt, unless it has used its retries; then the loop
\* goes on with the next item.
SendEnds(item, ok) ==
  /\ BagIn(item, notifications.sending)
  /\ ok \in DeliveryOutcomes(alerts[item.alertId])
  /\ LET left == [notifications EXCEPT !.sending = BagDel(@, item)]
         back == IF ~ok /\ Retries(item)
                   THEN [left EXCEPT !.queue =
                           Append(@, [item EXCEPT !.attempts = @ + 1])]
                   ELSE left
     IN notifications' = NextItem(back)
  /\ UNCHANGED <<pipelineVars, busVars, securityVars, monitor, breaker, learnTasks, repairStop,
                 predictive, metrics, fed>>

InitNotifier == Started({FALSE}, {FALSE})

NextNotifier ==
  \/ \E call \in MonitorCalls : CreateNotified(call)
  \/ ProcessNotifications
  \/ \E item \in BagToSet(notifications.sending) : \E ok \in BOOLEAN : SendEnds(item, ok)

SpecNotifier == InitNotifier /\ [][NextNotifier]_vars

\* The same with the interval firing and every request to a notification
\* service ending.
SpecNotifierFair ==
  /\ SpecNotifier
  /\ WF_vars(ProcessNotifications)
  /\ WF_vars(\E item \in BagToSet(notifications.sending) : \E ok \in BOOLEAN :
               SendEnds(item, ok))

\* --------------------------------------------------------- PredictiveAgent
\* Samples are [value, timestamp] with the timestamp in minutes; durations the
\* code computes in hours are kept in minutes, rounded down.
RECURSIVE SeqSum(_)
SeqSum(s) == IF s = <<>> THEN 0 ELSE Head(s) + SeqSum(Tail(s))

Values(samples) == [i \in DOMAIN samples |-> samples[i].value]

\* helpers.linearRegression over x = 0 .. n-1: slope = a / b.
linearRegression(vs) ==
  LET n == Len(vs)
      sumX == SeqSum([i \in 1..n |-> i - 1])
      sumY == SeqSum(vs)
      sumXY == SeqSum([i \in 1..n |-> (i - 1) * vs[i]])
      sumXX == SeqSum([i \in 1..n |-> (i - 1) * (i - 1)])
  IN IF n < 2
       THEN [a |-> 0, b |-> 1, n |-> n, sumX |-> sumX, sumY |-> sumY]
       ELSE [a |-> n * sumXY - sumX * sumY, b |-> n * sumXX - sumX * sumX,
             n |-> n, sumX |-> sumX, sumY |-> sumY]

\* calculateConfidence in percent: R squared times the data point factor,
\* clamped to [0, 1].  With T = n^2 ssTotal and R = (b n)^2 ssResidual,
\* R squared is 1 - R / (T b^2).
calculateConfidence(vs, reg) ==
  LET n == reg.n
      T == SeqSum([i \in 1..n |-> (n * vs[i] - reg.sumY) * (n * vs[i] - reg.sumY)])
      res == [i \in 1..n |-> reg.b * n * vs[i] - reg.a * n * (i - 1)
                              - reg.b * reg.sumY + reg.a * reg.sumX]
      R == SeqSum([i \in 1..n |-> res[i] * res[i]])
      whole == T * reg.b * reg.b
      rSquared == IF T = 0 THEN 0 ELSE (100 * (whole - R)) \div whole
      factor == IF n < minDataPoints THEN (100 * n) \div minDataPoints ELSE 100
      c == (rSquared * factor) \div 100
  IN IF c < 0 THEN 0 ELSE IF c > 100 THEN 100 ELSE c

\* The time the series spans, first sample to last.
Span(samples) == samples[Len(samples)].timestamp - samples[1].timestamp

\* (threshold - current) / (slope * pointsPerHour), in minutes.
MinutesToThreshold(samples, reg, threshold) ==
  ((threshold - samples[Len(samples)].value) * reg.b * Span(samples))
     \div (reg.a * reg.n)

\* createPrediction: the record stored under a fresh id.
createPrediction(p, type, minutes, confidence, action) ==
  [p EXCEPT !.predictions =
     Append(@, [type |-> type, predictedTime |-> p.now + minutes,
                confidence |-> confidence, proactiveAction |-> action,
                actionTaken |-> FALSE, outcome |-> "none", createdAt |-> p.now])]

\* The alert takeProactiveAction creates for each proactive action.
ProactiveCall(action) ==
  CASE action = "CLEANUP_LOGS" ->
         [type |-> "PROACTIVE_CLEANUP", component |-> "system", severity |-> "low",
          value |-> 0, threshold |-> 0]
    [] action = "SCHEDULE_RESTART" ->
         [type |-> "PROACTIVE_RESTART", component |-> "system", severity |-> "medium",
          value |-> 0, threshold |-> 0]
    [] action = "SCALE_RESOURCES" ->
         [type |-> "PROACTIVE_SCALE", component |-> "infrastructure", severity |-> "low",
          value |-> 0, threshold |-> 0]
    [] action = "ANALYZE_QUERIES" ->
         [type |-> "PROACTIVE_OPTIMIZE", component |-> "database", severity |-> "medium",
          value |-> 0, threshold |-> 0]
    [] action = "PAUSE_CAMPAIGNS" ->
         [type |-> "PROACTIVE_PAUSE", component |-> "email", severity |-> "high",
          value |-> 0, threshold |-> 0]

\* The series the metrics store hands to a predictor: minDataPoints samples
\* 40 minutes apart, rising by `step` from `first`, every second one lifted
\* by `jitter`; or one sample less.
Series(n, first, step, jitter) ==
  [i \in 1..n |-> [value |-> first + step * (i - 1) + (IF i % 2 = 0 THEN jitter ELSE 0),
                   timestamp |-> 40 * (i - 1)]]

InputSeries ==
  { Series(minDataPoints, 76, 1, 0),
    Series(minDataPoints, 76, 1, 4),
    Series(minDataPoints, 80, 0, 0),
    Series(minDataPoints - 1, 76, 1, 0) }

\* What calculateHourlyAverages gives for the current and the next hour.
TrafficProfiles ==
  { [points |-> minDataPoints, currentAvg |-> 10, nextHourAvg |-> 20],
    [points |-> minDataPoints, currentAvg |-> 10, nextHourAvg |-> 12],
    [points |-> minDataPoints - 1, currentAvg |-> 10, nextHourAvg |-> 20] }

\* Bounce rates in percent, oldest first: ten steady ones, ten with the last
\* five raised, and a series of nine.
BounceSeries ==
  { [i \in 1..10 |-> 3],
    [i \in 1..10 |-> IF i > 5 THEN 7 ELSE 2],
    [i \in 1..9 |-> IF i > 5 THEN 7 ELSE 2] }

\* What every predictor leaves alone.
PredictorLeaves ==
  UNCHANGED <<isRedisMode, anthropic, running, mirror, mirrored, diagnosisCache,
              activeRepairs, repairTasks, repairHistory, patterns, learningQueue,
              busVars, securityVars, monitor, breaker, learnTasks, repairStop, notifications,
              metrics, fed>>

\* The part of a predictor that only stores a prediction.
StorePrediction(p) ==
  /\ Len(predictive.predictions) < MaxPredictions
  /\ predictive' = p
  /\ UNCHANGED <<alerts, pendingDiagnoses, diagTasks, published>>

\* createPrediction followed by takeProactiveAction: the alert is created and
\* the prediction marked.
StoreAndAct(p) ==
  LET last == Len(p.predictions)
      r == CreateAlert(alerts, pendingDiagnoses, diagTasks,
                       ProactiveCall(p.predictions[last].proactiveAction), 0)
  IN /\ Len(predictive.predictions) < MaxPredictions
     /\ Cardinality(DOMAIN alerts) < MaxAlerts
     /\ predictive' = [p EXCEPT !.predictions[last].actionTaken = TRUE]
     /\ alerts' = r.store
     /\ pendingDiagnoses' = r.pending
     /\ diagTasks' = r.tasks
     /\ published' = BagAdd(published, r.event)

NoPrediction == UNCHANGED <<predictive, alerts, pendingDiagnoses, diagTasks, published>>

\* predictDiskUsage: the one predictor that goes on to takeProactiveAction.
PredictDiskUsage(samples) ==
  /\ LET vs == Values(samples)
         reg == linearRegression(vs)
         conf == calculateConfidence(vs, reg)
     IN IF /\ Len(samples) >= minDataPoints
           /\ vs[Len(vs)] < diskUsage
           /\ reg.a > 0
           /\ MinutesToThreshold(samples, reg, diskUsage) > 0
           /\ MinutesToThreshold(samples, reg, diskUsage) < forecastHorizon * 60
          THEN LET p == createPrediction(predictive, "DISK_FULL",
                          MinutesToThreshold(samples, reg, diskUsage), conf, "CLEANUP_LOGS")
               IN IF conf >= predictiveConfidenceThreshold
                    THEN StoreAndAct(p)
                    ELSE StorePrediction(p)
          ELSE NoPrediction
  /\ PredictorLeaves

\* predictMemoryIssues: a slope above 0.01 per sample.
PredictMemoryIssues(samples) ==
  /\ LET vs == Values(samples)
         reg == linearRegression(vs)
     IN IF /\ Len(samples) >= minDataPoints
           /\ 100 * reg.a > reg.b
           /\ MinutesToThreshold(samples, reg, memoryUsage) > 0
           /\ MinutesToThreshold(samples, reg, memoryUsage) < forecastHorizon * 60
          THEN StorePrediction(
                 createPrediction(predictive, "MEMORY_LEAK",
                   MinutesToThreshold(samples, reg, memoryUsage),
                   calculateConfidence(vs, reg), "SCHEDULE_RESTART"))
          ELSE NoPrediction
  /\ PredictorLeaves

\* predictTrafficSpike: the next hour's average more than 1.5 times this hour's.
PredictTrafficSpike(profile) ==
  /\ IF /\ profile.points >= minDataPoints
        /\ 2 * profile.nextHourAvg > 3 * profile.currentAvg
       THEN StorePrediction(
              createPrediction(predictive, "TRAFFIC_SPIKE", 60, trafficSpikeConfidence,
                               "SCALE_RESOURCES"))
       ELSE NoPrediction
  /\ PredictorLeaves

\* predictDatabaseSlowdown: a slope above 0.5 ms per sample, the threshold
\* less than 1000 samples away, 5 s taken for each.
PredictDatabaseSlowdown(samples) ==
  /\ LET vs == Values(samples)
         reg == linearRegression(vs)
         gap == (slowQueryThreshold - vs[Len(vs)]) * reg.b
     IN IF /\ Len(samples) >= minDataPoints
           /\ 2 * reg.a > reg.b
           /\ gap > 0
           /\ gap < 1000 * reg.a
          THEN StorePrediction(
                 createPrediction(predictive, "DATABASE_SLOWDOWN",
                   (gap * 5) \div (reg.a * 60), calculateConfidence(vs, reg),
                   "ANALYZE_QUERIES"))
          ELSE NoPrediction
  /\ PredictorLeaves

\* predictEmailReputation: the average of the last five bounce rates above
\* 1.5 times the average of all and above 2.
PredictEmailReputation(vs) ==
  /\ LET n == Len(vs)
         recent == SeqSum(SubSeq(vs, n - 4, n))
     IN IF /\ n >= 10
           /\ 2 * n * recent > 15 * SeqSum(vs)
           /\ recent > 2 * 5
          THEN StorePrediction(
                 createPrediction(predictive, "EMAIL_REPUTATION_DECLINE", 24 * 60,
                                  emailReputationConfidence, "PAUSE_CAMPAIGNS"))
          ELSE NoPrediction
  /\ PredictorLeaves

\* The time to the next round of startAnalysis' interval passes.
AnalysisInterval ==
  /\ predictive.now < MaxRuns * predictiveAnalysis
  /\ predictive' = [predictive EXCEPT !.now = @ + predictiveAnalysis]
  /\ UNCHANGED <<pipelineVars, busVars, securityVars, monitor, breaker, learnTasks, repairStop,
                 notifications, metrics, fed>>

InitPredictive == Started({FALSE}, {FALSE})

NextPredictive ==
  \/ \E samples \in InputSeries : PredictDiskUsage(samples)
  \/ \E samples \in InputSeries : PredictMemoryIssues(samples)
  \/ \E profile \in TrafficProfiles : PredictTrafficSpike(profile)
  \/ \E samples \in InputSeries : PredictDatabaseSlowdown(samples)
  \/ \E vs \in BounceSeries : PredictEmailReputation(vs)
  \/ AnalysisInterval

SpecPredictive == InitPredictive /\ [][NextPredictive]_vars

\* PredictiveAgent.start when stopped: running, then startAnalysis arms the
\* interval and one more 10 s timeout for the initial pass.
StartPredictive ==
  /\ ~predictive.running
  /\ predictive.starts < MaxStarts
  /\ predictive' = [predictive EXCEPT !.running = TRUE, !.interval = TRUE,
                                      !.initial = @ + 1, !.starts = @ + 1]
  /\ UNCHANGED <<pipelineVars, busVars, securityVars, monitor, breaker, learnTasks, repairStop,
                 notifications, metrics, fed>>

\* PredictiveAgent.stop to its return: running = false and clearInterval of
\* analysisInterval; the timeout of the initial pass has no handle to clear.
StopPredictive ==
  /\ predictive.running
  /\ predictive' = [predictive EXCEPT !.running = FALSE, !.interval = FALSE]
  /\ UNCHANGED <<pipelineVars, busVars, securityVars, monitor, breaker, learnTasks, repairStop,
                 notifications, metrics, fed>>

\* A pass of runPredictions begins; it remembers what started it and whether
\* the agent was running then.
BeginPass(p, by) == [p EXCEPT !.passes = Append(@, [by |-> by, running |-> p.running])]

\* The interval callback: if (!this.running) return; await runPredictions().
IntervalFires ==
  /\ predictive.interval
  /\ Len(predictive.passes) < MaxRuns
  /\ predictive.running
  /\ predictive' = BeginPass(predictive, "interval")
  /\ UNCHANGED <<pipelineVars, busVars, securityVars, monitor, breaker, learnTasks, repairStop,
                 notifications, metrics, fed>>

\* The timeout callback of the initial pass: () => this.runPredictions().
InitialFires ==
  /\ predictive.initial > 0
  /\ Len(predictive.passes) < MaxRuns
  /\ predictive' = [BeginPass(predictive, "initial") EXCEPT !.initial = @ - 1]
  /\ UNCHANGED <<pipelineVars, busVars, securityVars, monitor, breaker, learnTasks, repairStop,
                 notifications, metrics, fed>>

\* A predictor of a pass under way answers.
PassPredicts ==
  /\ predictive.passes # <<>>
  /\ \/ \E samples \in InputSeries : PredictDiskUsage(samples)
     \/ \E samples \in InputSeries : PredictMemoryIssues(samples)

\* The metrics store with a database: record calls and the flushes of the
\* aggregation interval.  The schema of the metric table is not among the
\* sources, so a flush may find a unique key on it or none.
NextPersist ==
  \/ \E name \in MetricNames : \E reading \in Readings : Record(name, reading)
  \/ \E uniqueKey \in BOOLEAN : PersistToDb(uniqueKey)

InitPersist == Started({FALSE}, {FALSE})

SpecPersist == InitPersist /\ [][NextPersist]_vars

\* One circuit breaker under calls that succeed or fail, some of them
\* overlapping, while time passes.
InitBreaker == Started({FALSE}, {FALSE})

NextBreaker ==
  \/ BreakerCall
  \/ \E ok \in BOOLEAN : BreakerSettle(ok)
  \/ BreakerTick

SpecBreaker == InitBreaker /\ [][NextBreaker]_vars

\* The Predictive Agent started and stopped while its timers run.
NextPredictiveStop ==
  \/ StartPredictive
  \/ StopPredictive
  \/ IntervalFires
  \/ InitialFires
  \/ PassPredicts

SpecPredictiveStop == InitPredictive /\ [][NextPredictiveStop]_vars

\* The metrics store under any sequence of record calls and queries.
InitMetrics == Started({FALSE}, {FALSE})

\* The queries made: no range or one that starts or ends at the second
\* sample; no limit, one sample, the default.
AskedTimes == {NoTime, 2}

AskedLimits == {0, 1, defaultLimit}

NextMetrics ==
  \/ \E name \in MetricNames : \E reading \in Readings : Record(name, reading)
  \/ \E name \in MetricNames : \E startTime, endTime \in AskedTimes :
       \E limit \in AskedLimits : Get(name, startTime, endTime, limit)
  \/ \E name \in MetricNames : GetStats(name)

SpecMetrics == InitMetrics /\ [][NextMetrics]_vars

\* The store under record calls alone.
NextRecording == \E name \in MetricNames : \E reading \in Readings : Record(name, reading)

SpecRecording == InitMetrics /\ [][NextRecording]_vars

\* The Learning Agent over any sequence of repair outcomes.
InitLearning == Started({FALSE}, {FALSE})

NextLearning ==
  \/ \E e \in OutcomeEvents : ReceiveOutcome(e)
  \/ \E h \in DOMAIN patterns : AgePattern(h)
  \/ Consolidate
  \/ StopLearning
  \/ StartLearning

SpecLearning == InitLearning /\ [][NextLearning]_vars

\* Repair outcomes whose learnFromRepair calls overlap at their awaits.
NextLearningConcurrent ==
  \/ \E e \in OutcomeEvents : HandleOutcome(e)
  \/ \E t \in BagToSet(learnTasks) : PublishLearned(t)

SpecLearningConcurrent == InitLearning /\ [][NextLearningConcurrent]_vars

\* What loadPatterns may find for a signature: a pattern as an earlier run
\* saved it, with failures counted, or a database row whose successRate column
\* holds the rounded rate.
LoadedRecords ==
  { [successCount |-> 1, failureCount |-> 1, rateNum |-> 1, rateDen |-> 2,
     autoFixEnabled |-> FALSE, stale |-> FALSE],
    [successCount |-> 2, failureCount |-> 1, rateNum |-> 67, rateDen |-> 100,
     autoFixEnabled |-> FALSE, stale |-> FALSE] }

LoadedStores ==
  {<<>>} \cup {(PatternHash(e.diagnosis) :> r) : e \in OutcomeEvents, r \in LoadedRecords}

\* The Learning Agent started over a pattern store that loadPatterns filled.
InitLearningLoaded ==
  /\ PipelineStarted({FALSE}, {FALSE}, LoadedStores)
  /\ SecurityStarted({FALSE})
  /\ MonitorStarted({[db |-> TRUE, redis |-> TRUE]})

SpecLearningLoaded == InitLearningLoaded /\ [][NextLearning]_vars

\* --------------------------------------------------------------- EventBus
\* What a subscribed handler does when it is called: return, throw
\* synchronously, or return a promise that rejects.
ListenerKinds == {"ok", "throws", "rejects"}

\* EventEmitter.emit calls the listeners in subscription order and catches
\* nothing: the first listener that throws ends the loop, and the ones after it
\* are not called.  A rejected promise is not seen by emit.  The result is the
\* index of the last listener called.
emit(listeners) ==
  LET throwers == {i \in 1..Len(listeners) : listeners[i] = "throws"}
  IN IF throwers = {} THEN Len(listeners)
     ELSE CHOOSE i \in throwers : \A j \in throwers : i <= j

\* publish() returns the event when emit returns; when emit throws, the
\* promise of publish() rejects.
Returns(listeners) == \A i \in 1..Len(listeners) : listeners[i] # "throws"

\* subscribe(channel, handler): this.on(channel, handler), and in Redis mode
\* the callback on the Redis subscriber.
Subscribe(kind) ==
  /\ Len(subs) < MaxSubs
  /\ subs' = Append(subs, kind)
  /\ received' = Append(received, <<>>)
  /\ UNCHANGED <<pipelineVars, securityVars, monitor, otherVars, publishLog, fed>>

\* How redis.publish ends: not called in memory-only mode, else the message
\* is sent or the call fails (publish catches the failure and goes on).
MirrorOutcomes == IF isRedisMode THEN {"sent", "failed"} ELSE {"none"}

\* publish(channel, data): the mirror first, then the local emit.  A message
\* sent to the mirror comes back through the callback subscribe gave the
\* Redis subscriber, which calls each handler inside a try/catch.
Publish(mirrorOutcome) ==
  /\ Len(publishLog) < MaxPublishes
  /\ LET id == Len(publishLog) + 1
         last == emit(subs)
         copied == [i \in 1..Len(subs) |->
                      IF mirrorOutcome = "sent" THEN Append(received[i], id)
                      ELSE received[i]]
     IN /\ received' = [i \in 1..Len(subs) |->
                          IF i <= last THEN Append(copied[i], id) ELSE copied[i]]
        /\ publishLog' = Append(publishLog,
                                [event |-> id, listeners |-> Len(subs),
                                 returned |-> Returns(subs)])
  /\ UNCHANGED <<pipelineVars, securityVars, monitor, otherVars, subs, fed>>

InitBus == Started({FALSE}, {FALSE})

NextBus ==
  \/ \E kind \in ListenerKinds : Subscribe(kind)
  \/ \E mirrorOutcome \in MirrorOutcomes : Publish(mirrorOutcome)

SpecBus == InitBus /\ [][NextBus]_vars

\* The bus with or without the Redis mirror.
InitBusMirrored == Started(BOOLEAN, {FALSE})

SpecBusMirrored == InitBusMirrored /\ [][NextBus]_vars

\* The Security Agent: requests, failed logins, the periodic scan and time.
InitSecurity ==
  /\ CoreStarted({FALSE}, {FALSE})
  /\ SecurityStarted(BOOLEAN)
  /\ MonitorStarted({[db |-> TRUE, redis |-> TRUE]})

NextSecurity ==
  \/ \E ip \in IPs : \E request \in Requests : AnalyzeRequest(ip, request)
  \/ \E ip \in IPs : RecordFailedLogin(ip)
  \/ SecurityScan
  \/ \E d \in {lockoutDuration, ipBlockDuration} : Tick(d)

SpecSecurity == InitSecurity /\ [][NextSecurity]_vars

\* The Monitor Agent's probe loops over an Alert Manager that starts empty.
InitMonitor ==
  /\ CoreStarted({FALSE}, {FALSE})
  /\ SecurityStarted({FALSE})
  /\ MonitorStarted(MonitorClients)

NextMonitor ==
  \E loop \in ProbeLoops : \E target \in ProbeTargets(loop) :
    \E outcome \in ProbeOutcomes : Probe(loop, target, outcome)

SpecMonitor == InitMonitor /\ [][NextMonitor]_vars

\* ================================================================ properties
SamePair(a, b) ==
  /\ alerts[a].type = alerts[b].type
  /\ alerts[a].component = alerts[b].component

\* The create() calls made so far for the (type, component) of alert a: each
\* call publishes one alert event in its own step.
CreatesFor(a) ==
  LET evs == {e \in BagToSet(published) :
                /\ e.channel = "alert"
                /\ e.alertId \in DOMAIN alerts
                /\ SamePair(e.alertId, a)}
  IN BagCardinality([e \in evs |-> published[e]])

\* C1: while no alert of a (type, component) pair has been resolved, the
\* create() calls for the pair have left exactly one record, and its
\* occurrence count is the number of those calls.
C1_OccurrencesCounted ==
  \A a \in DOMAIN alerts :
    (\A b \in DOMAIN alerts : SamePair(a, b) => ~alerts[b].resolved)
      => /\ Cardinality({b \in DOMAIN alerts : SamePair(a, b)}) = 1
         /\ OccurrenceCount(alerts[a]) = CreatesFor(a)

\* C2: at any time there is at most one unresolved alert per (type, component).
C2_OneUnresolvedPerPair ==
  \A a, b \in DOMAIN alerts :
    (SamePair(a, b) /\ ~alerts[a].resolved /\ ~alerts[b].resolved) => a = b

DiagnosesOf(a) ==
  {e \in BagToSet(published) : e.channel = "diagnosis" /\ e.alertId = a}

RequestsOf(a) ==
  {e \in BagToSet(published) : e.channel = "repair-request" /\ e.alertId = a}

\* C3: with rule-based diagnosis and the default thresholds, once the
\* Diagnostic Agent has published its diagnosis DATABASE_INDEX of a DB_SLOW
\* alert it has published the repair request for it (the first stage of the
\* flow that ends in the alert auto-resolved and a pattern learned).
C3_SlowDatabaseRepairRequested ==
  \A a \in DOMAIN alerts :
    (/\ ~anthropic
     /\ alerts[a].type = "DB_SLOW"
     /\ \E e \in DiagnosesOf(a) : e.diagnosis.fixType = "DATABASE_INDEX")
      => \E e \in RequestsOf(a) : e.diagnosis.fixType = "DATABASE_INDEX"

LowDiagnosesOf(a) ==
  LET evs == {e \in DiagnosesOf(a) : e.diagnosis.confidence < escalationConfidence}
  IN BagCardinality([e \in evs |-> published[e]])

EscalationsOf(a) ==
  {b \in DOMAIN alerts : alerts[b].type = "ESCALATION" /\ alerts[b].origin = a}

\* C4: every repair request carries a diagnosis with confidence at or above the
\* confidence threshold that is auto-fixable; a diagnosis with confidence below
\* 0.5 has no repair request, and each such diagnosis of an alert has created
\* one escalation alert for it.
C4_RepairOnlyWhenConfident ==
  /\ \A e \in BagToSet(published) :
       e.channel = "repair-request"
         => e.diagnosis.confidence >= confidenceThreshold /\ e.diagnosis.autoFixable
  /\ \A e \in BagToSet(published) :
       (e.channel = "diagnosis" /\ e.diagnosis.confidence < escalationConfidence)
         => /\ ~BagIn(Event("repair-request", e.alertId, e.diagnosis, FALSE), published)
            /\ Cardinality(EscalationsOf(e.alertId)) = LowDiagnosesOf(e.alertId)

\* A diagnosis below 0.5 has been escalated, and the escalation alert's own
\* confident diagnosis has asked for a repair.
C4_Witness ==
  \E e \in BagToSet(published) :
    /\ e.channel = "diagnosis"
    /\ e.diagnosis.confidence < escalationConfidence
    /\ e.diagnosis.autoFixable
    /\ EscalationsOf(e.alertId) # {}
    /\ \E r \in BagToSet(published) : r.channel = "repair-request"

\* C5: every publish returns its event, and every handler subscribed when it
\* was made has been called with the event, whatever the other handlers did.
C5_FailureIsolated ==
  \A p \in 1..Len(publishLog) :
    /\ publishLog[p].returned
    /\ \A i \in 1..publishLog[p].listeners :
         \E k \in 1..Len(received[i]) : received[i][k] = publishLog[p].event

OutcomesOf(h, ok) ==
  LET qs == {q \in BagToSet(learningQueue) :
               PatternHash(q.diagnosis) = h /\ q.success = ok}
  IN BagCardinality([q \in qs |-> learningQueue[q]])

Signatures == {PatternHash(q.diagnosis) : q \in BagToSet(learningQueue)}

\* C6: every repair-complete event the running Learning Agent has received has
\* moved one counter: while no pattern has been pruned, the pattern of a
\* signature counts the successes and the failures received for it.
C6_EveryOutcomeCounted ==
  \A h \in Signatures :
    /\ h \in DOMAIN patterns
    /\ patterns[h].successCount = OutcomesOf(h, TRUE)
    /\ patterns[h].failureCount = OutcomesOf(h, FALSE)

C7_EnabledAtThresholds ==
  \A h \in DOMAIN patterns :
    LET p == patterns[h]
    IN /\ (/\ p.successCount >= minOccurrences
           /\ 100 * p.successCount >= minSuccessRate * (p.successCount + p.failureCount))
         => p.autoFixEnabled
       /\ p.autoFixEnabled => p.successCount >= minOccurrences

C7_NeverDisabled ==
  \A h \in DOMAIN patterns :
    patterns[h].autoFixEnabled
      => IF h \in DOMAIN patterns'
           THEN patterns'[h].autoFixEnabled
           ELSE patterns' = Prune(patterns)

\* C7: a pattern has autoFixEnabled once an outcome has left it with a success
\* rate of at least minSuccessRate and at least minOccurrences successes, and
\* not before; no step sets the flag back to false, and a pattern that has it
\* disappears only in a consolidation pruning.
C7_AutoFixIsOneWay == []C7_EnabledAtThresholds /\ [][C7_NeverDisabled]_vars

\* A pattern was enabled and has taken a further success since.
C7_Witness ==
  \E h \in DOMAIN patterns :
    patterns[h].autoFixEnabled /\ patterns[h].successCount > minOccurrences

\* C8: resolving an alert that is already resolved changes nothing: resolved,
\* autoResolved and resolution keep the values of the first resolve.
C8_ResolveIsIdempotent ==
  [][\A a \in DOMAIN alerts :
       alerts[a].resolved
         => /\ alerts'[a].resolved
            /\ alerts'[a].autoResolved = alerts[a].autoResolved
            /\ alerts'[a].resolution = alerts[a].resolution]_vars

\* C9: RESOLVED is terminal: no step makes a resolved alert unresolved or
\* changes its acknowledged flag.
C9_ResolvedIsTerminal ==
  [][\A a \in DOMAIN alerts :
       alerts[a].resolved
         => /\ alerts'[a].resolved
            /\ alerts'[a].acknowledged = alerts[a].acknowledged]_vars

InFlight(a) ==
  LET ts == {t \in BagToSet(repairTasks) : t.alertId = a}
  IN BagCardinality([t \in ts |-> repairTasks[t]])

Repaired(a) ==
  LET hs == {r \in BagToSet(repairHistory) : r.alertId = a}
  IN BagCardinality([r \in hs |-> repairHistory[r]])

Requested(a) == BagCardinality([e \in RequestsOf(a) |-> published[e]])

\* C10: at most one repair is in flight per alert id, and the alert ids in
\* activeRepairs are the ones with a repair in flight.
C10_OneRepairInFlight ==
  \A a \in DOMAIN alerts :
    /\ InFlight(a) <= 1
    /\ (a \in activeRepairs) <=> (InFlight(a) = 1)

\* Two repair requests for an alert were handled, none of its repairs has
\* ended, and one repair is in flight: the second request was skipped.
C10_Witness ==
  \E a \in DOMAIN alerts :
    /\ Requested(a) >= 2
    /\ Repaired(a) = 0
    /\ InFlight(a) = 1

Completed(a) ==
  LET evs == {e \in BagToSet(published) : e.channel = "repair-complete" /\ e.alertId = a}
  IN BagCardinality([e \in evs |-> published[e]])

C11_RepairEnds ==
  \A a \in 1..MaxAlerts : (a \in activeRepairs) ~> (a \notin activeRepairs)

C11_EndIsReported ==
  \A a \in activeRepairs :
    a \notin activeRepairs' => Completed(a)' = Completed(a) + 1

\* C11: every repair request the Repair Agent accepts (fix type allowed, no
\* repair of the alert in flight) leads to the end of that repair, and the
\* step that ends it publishes one repair-complete event for the alert,
\* whether the fix succeeded or reported failure.
C11_RepairCompletes == C11_RepairEnds /\ [][C11_EndIsReported]_vars

\* A repair whose fix handler reported failure has ended and was reported.
C11_Witness ==
  \E e \in BagToSet(published) :
    /\ e.channel = "repair-complete"
    /\ ~e.success
    /\ e.alertId \notin activeRepairs
    /\ Repaired(e.alertId) = Completed(e.alertId)

\* C12: when a fix handler has reported success and the component is still
\* unhealthy at the verification, the step that ends the repair executes the
\* rollback, reports the repair with success = false and leaves the alert as
\* it was.
C12_FailedVerificationRollsBack ==
  [][\A t \in BagToSet(repairTasks) :
       (t.stage = "verify" /\ ~t.healthy /\ t.alertId \notin activeRepairs')
         => LET failed == Event("repair-complete", t.alertId, t.diagnosis, FALSE)
                rolledBack == Event("rollback", t.alertId, t.diagnosis, FALSE)
            IN /\ CopiesIn(failed, published') = CopiesIn(failed, published) + 1
               /\ CopiesIn(rolledBack, published') = CopiesIn(rolledBack, published) + 1
               /\ alerts'[t.alertId] = alerts[t.alertId]]_vars

Succeeded(a) ==
  LET evs == {e \in BagToSet(published) :
                e.channel = "repair-complete" /\ e.alertId = a /\ e.success}
  IN BagCardinality([e \in evs |-> published[e]])

C13_ResolvesOnSuccessOnly ==
  \A a \in DOMAIN alerts :
    /\ Succeeded(a)' > Succeeded(a)
         => /\ alerts'[a].resolved
            /\ alerts'[a].autoResolved
            /\ alerts'[a].resolution = "Auto-fixed"
    /\ (alerts'[a].autoResolved /\ ~alerts[a].autoResolved)
         => Succeeded(a)' > Succeeded(a)
    /\ (Completed(a)' > Completed(a) /\ Succeeded(a)' = Succeeded(a))
         => alerts'[a] = alerts[a]
    /\ (Requested(a)' > Requested(a)) => alerts'[a] = alerts[a]

\* C13: the step that ends a repair with success = true leaves the alert
\* resolved with autoResolved = true; autoResolved becomes true in no other
\* step; a repair that ends with success = false, and a repair request that
\* is accepted or rejected, leave the alert as it was.
C13_AutoResolveOnSuccess == [][C13_ResolvesOnSuccessOnly]_vars

\* One alert was auto-resolved by its repair, and another alert's repair has
\* failed and left it unresolved.
C13_Witness ==
  \E a, b \in DOMAIN alerts :
    /\ alerts[a].autoResolved /\ Succeeded(a) = 1
    /\ Completed(b) = 1 /\ Succeeded(b) = 0 /\ ~alerts[b].resolved

NotAllowedRequests ==
  LET evs == {e \in BagToSet(published) :
                e.channel = "repair-request" /\ e.diagnosis.fixType \notin allowedFixes}
  IN BagCardinality([e \in evs |-> published[e]])

RollbacksRun ==
  LET evs == {e \in BagToSet(published) : e.channel = "rollback"}
  IN BagCardinality([e \in evs |-> published[e]])

\* C14: the step in which the Repair Agent gets a repair request whose fix
\* type is not in the allow-list starts no fix handler, runs no rollback,
\* records no repair and leaves the alert store as it was.
C14_NotAllowedIsSkipped ==
  [][NotAllowedRequests' > NotAllowedRequests
       => /\ repairTasks' = repairTasks
          /\ activeRepairs' = activeRepairs
          /\ repairHistory' = repairHistory
          /\ RollbacksRun' = RollbacksRun
          /\ alerts' = alerts]_vars

\* A request with a fix type outside the allow-list was handled while no
\* repair of its alert was in flight, and the alert has no repair.
C14_Witness ==
  \E e \in BagToSet(published) :
    /\ e.channel = "repair-request"
    /\ e.diagnosis.fixType \notin allowedFixes
    /\ Requested(e.alertId) = 1
    /\ InFlight(e.alertId) = 0
    /\ Repaired(e.alertId) = 0

\* The block a threat incident has put on its IP is still running.
BlockRuns(i) ==
  /\ i.blocked
  /\ (Mitigation(i.type).duration = 0 \/ now < i.at + Mitigation(i.type).duration)

\* C15: analyzeRequest treats an IP as blocked only while a block put on it
\* is running: a permanent block, or a temporary one (24 hours for XSS or
\* path traversal, the lockout duration for brute force) whose duration has
\* not elapsed, whether or not a cleanup pass has run and whether or not
\* Redis is configured.
C15_TemporaryBlockEnds ==
  \A ip \in IPs :
    TreatsAsBlocked(ip)
      => \E i \in BagToSet(incidents) : i.ip = ip /\ BlockRuns(i)

BruteForceIncidents(ip) ==
  LET is == {i \in BagToSet(incidents) : i.type = "BRUTE_FORCE" /\ i.ip = ip}
  IN BagCardinality([i \in is |-> incidents[i]])

\* C16: a step records a BRUTE_FORCE incident for an IP, in recordFailedLogin
\* or in the detection scan, only when the IP's failed logins within the
\* lockout window are more than maxFailedLogins, and the failed login that
\* makes them more than maxFailedLogins leaves the IP blocked with such an
\* incident recorded.
C16_BlockedAboveCountOnly ==
  [][\A ip \in IPs :
       LET inWindow == Len(Recent(failedLogins'[ip], now, lockoutDuration))
       IN /\ BruteForceIncidents(ip)' > BruteForceIncidents(ip)
               => inWindow > maxFailedLogins
          /\ (failedLogins'[ip] # failedLogins[ip] /\ inWindow > maxFailedLogins
               /\ Len(failedLogins'[ip]) > Len(failedLogins[ip]))
               => /\ ip \in blockedIPs'
                  /\ BruteForceIncidents(ip)' > BruteForceIncidents(ip)]_vars

\* The unresolved alerts of a component with severity critical or high.
SevereAlerts(store, component) ==
  {a \in DOMAIN store :
     /\ store[a].component = component
     /\ ~store[a].resolved
     /\ store[a].severity \in {"critical", "high"}}

\* C17: in every probe loop, the step in which a connectivity probe of a
\* target fails (the loop records a status other than healthy for it) adds
\* an alert of severity critical or high for the target's component.
C17_FailedProbeAlerts ==
  [][\A loop \in ProbeLoops : \A target \in ProbeTargets(loop) :
       (/\ monitor'.lastChecks[target] # monitor.lastChecks[target]
        /\ monitor'.lastChecks[target].status # "healthy")
         => SevereAlerts(alerts', ProbeComponent(loop))
              \ SevereAlerts(alerts, ProbeComponent(loop)) # {}]_vars

\* The diagnoses published for alert a that are not the well-formed answer of
\* the reasoning backend.
FallbackDiagnoses(a) ==
  LET evs == {e \in DiagnosesOf(a) : ~(e.diagnosis.diagnosedBy = "ai" /\ e.diagnosis.rootCause)}
  IN BagCardinality([e \in evs |-> published[e]])

WellFormedDiagnoses(a) ==
  LET evs == {e \in DiagnosesOf(a) : e.diagnosis.diagnosedBy = "ai" /\ e.diagnosis.rootCause}
  IN BagCardinality([e \in evs |-> published[e]])

\* C18: the step that ends the reasoning for an alert publishes a diagnosis
\* of the alert: the well-formed diagnosis the reasoning backend gave, or,
\* when the call failed or its output is no diagnosis, the rule-table
\* diagnosis of the alert.
C18_FailureFallsBackToRules ==
  [][\A t \in BagToSet(diagTasks) :
       (t.stage = "reasoning" /\ ~BagIn(t, diagTasks'))
         => \/ WellFormedDiagnoses(t.alertId)' = WellFormedDiagnoses(t.alertId) + 1
            \/ /\ FallbackDiagnoses(t.alertId)' = FallbackDiagnoses(t.alertId) + 1
               /\ BagIn(Event("diagnosis", t.alertId, ruleDiagnose(alerts[t.alertId]), FALSE),
                        published')]_vars

\* config.alertTypes, and the types the Predictive and Diagnostic agents use.
AlertTypes ==
  {"API_SLOW", "API_DOWN", "API_ERROR_RATE", "DB_SLOW", "DB_CONNECTION_ERROR",
   "DB_POOL_EXHAUSTED", "MEMORY_HIGH", "CPU_HIGH", "DISK_HIGH", "REDIS_SLOW", "REDIS_DOWN",
   "EMAIL_BOUNCE_HIGH", "EMAIL_PROVIDER_DOWN", "QUEUE_BACKLOG", "EXTERNAL_API_DOWN",
   "SSL_EXPIRING", "SECURITY_THREAT", "BRUTE_FORCE", "SQL_INJECTION",
   "RATE_LIMIT_EXCEEDED", "PROACTIVE_CLEANUP", "ESCALATION"}

\* C19: every alert the Monitor Agent has passed to AlertManager.create has a
\* type with its own entry in the rule table, and an alert type without an
\* entry gets the generic one: fix type MANUAL, confidence 0.5, not
\* auto-fixable.
C19_RuleTableCovers ==
  /\ \A a \in DOMAIN alerts : alerts[a].type \in RuleTypes
  /\ \A ty \in AlertTypes \ RuleTypes :
       RuleTable(ty) = [fixType |-> "MANUAL", autoFixable |-> FALSE, confidence |-> 50]

\* C20: every diagnosis the Diagnostic Agent has published has a confidence
\* between 0 and 1, and every pattern the Learning Agent holds has counts
\* that give a success rate successCount / (successCount + failureCount)
\* between 0 and 1.
C20_ConfidenceAndRateInRange ==
  /\ \A e \in BagToSet(published) :
       e.channel = "diagnosis"
         => e.diagnosis.confidence >= 0 /\ e.diagnosis.confidence <= 100
  /\ \A h \in DOMAIN patterns :
       /\ patterns[h].successCount >= 0
       /\ patterns[h].failureCount >= 0
       /\ patterns[h].successCount + patterns[h].failureCount > 0

\* The pattern of signature h was created or had a counter moved by the step.
Touched(h) ==
  \/ h \notin DOMAIN patterns
  \/ patterns'[h].successCount # patterns[h].successCount
  \/ patterns'[h].failureCount # patterns[h].failureCount

\* The stored rate of pattern p is successCount / (successCount + failureCount).
RateMatchesCounts(p) ==
  /\ p.rateDen > 0
  /\ p.rateNum * (p.successCount + p.failureCount) = p.successCount * p.rateDen

\* C21: every repair outcome that touches a pattern, creating it or moving one
\* of its counters, leaves it with successRate = successCount / (successCount +
\* failureCount), and a pattern that satisfies the equation keeps satisfying it.
C21_RateFollowsCounts ==
  [][\A h \in DOMAIN patterns' :
       (Touched(h) \/ RateMatchesCounts(patterns[h])) => RateMatchesCounts(patterns'[h])]_vars

\* A loaded pattern with a failure counted has taken a success since.
C21_Witness ==
  \E h \in DOMAIN patterns :
    /\ patterns[h].failureCount > 0
    /\ patterns[h].successCount = patterns[h].rateNum
    /\ patterns[h].rateDen = patterns[h].successCount + patterns[h].failureCount
    /\ learningQueue # EmptyBag

\* The signatures for which a successful outcome has been handled.
LearnedSignatures ==
  {PatternHash(q.diagnosis) : q \in {x \in BagToSet(learningQueue) : x.success}}

\* C22: after N successful repair-complete events of one symptom signature
\* have been handled, their learnFromRepair calls overlapping in any way, the
\* store holds the pattern of the signature and its successCount is N.
C22_NoLostUpdate ==
  \A h \in LearnedSignatures :
    /\ h \in DOMAIN patterns
    /\ patterns[h].successCount = OutcomesOf(h, TRUE)

\* Two successes of one signature were handled while the learnFromRepair call
\* of the first still waited, and both are counted.
C22_Witness ==
  \E h \in DOMAIN patterns :
    /\ patterns[h].successCount >= 2
    /\ \E t \in BagToSet(learnTasks) :
         PatternHash(t.diagnosis) = h /\ t.pattern.successCount = 1


C23_HaltStep ==
  (repairStop # "stopped" /\ repairStop' = "stopped") =>
    \/ repairStop = "waiting"
    \/ activeRepairs = {}

C23_StopReturns == ~running["Repair"] ~> (repairStop = "stopped")

\* C23: a stop of the Repair Agent called with a repair in flight halts the
\* agent (unsubscribes, announces agent-stopped) only once its grace sleep is
\* over, a stop called with none in flight halts at once, and every stop
\* reaches its halt.
C23_StopWaitsForGrace == [][C23_HaltStep]_vars /\ C23_StopReturns

\* A stop called during a repair has halted after the grace sleep, the repair
\* still in flight.
C23_Witness == repairStop = "stopped" /\ activeRepairs # {}


Queued == {notifications.queue[i] : i \in DOMAIN notifications.queue}

InNotifier == Queued \cup BagToSet(notifications.sending)

C24_RetriesBounded == \A item \in InNotifier : item.attempts <= maxRetries

InHand(n) == BagCardinality(n.sending) + Len(n.queue)

C24_FailureStep ==
  (notifications' # notifications /\ InHand(notifications') <= InHand(notifications))
    => alerts' = alerts

C24_Drains ==
  <>[](notifications.queue = <<>> /\ notifications.sending = EmptyBag)

\* C24: a notification is sent again at most three times after its first
\* failure and is then dropped; the steps of a drain neither create nor change
\* an alert; and with every send ending, the queue and the drains run empty.
C24_FailingNotificationDropped ==
  /\ []C24_RetriesBounded
  /\ [][C24_FailureStep]_vars
  /\ C24_Drains

\* A notification is being sent for the third time after its first failure.
C24_Witness ==
  \E item \in BagToSet(notifications.sending) : item.attempts = maxRetries


Predictions == {predictive.predictions[i] : i \in DOMAIN predictive.predictions}

ProactiveAlerts(action) ==
  {a \in DOMAIN alerts : alerts[a].type = ProactiveCall(action).type}

\* C25: every stored prediction whose confidence is at or above the
\* predictive confidence threshold, whatever its forecast type, is marked
\* actionTaken and has the alert of its proactive action in the alert store.
C25_HighConfidenceActs ==
  \A p \in Predictions :
    p.confidence >= predictiveConfidenceThreshold
      => p.actionTaken /\ ProactiveAlerts(p.proactiveAction) # {}

Active(p) == p.predictedTime > predictive.now /\ p.outcome = "none"

ActiveOfType(type) ==
  {i \in DOMAIN predictive.predictions :
     predictive.predictions[i].type = type /\ Active(predictive.predictions[i])}

\* C26: the agent never holds two live MEMORY_LEAK predictions (their
\* predicted time ahead, no outcome recorded): a fresher one replaces the
\* earlier one.
C26_OneLiveMemoryLeak == Cardinality(ActiveOfType("MEMORY_LEAK")) <= 1


\* C27: a request from an IP that is not blocked is answered with the threat
\* type of the first check it matches in the order SQL injection, XSS, path
\* traversal, command injection (a path with ../ and nothing earlier in the
\* order: PATH_TRAVERSAL); a request from a blocked IP is answered BLOCKED_IP.
C27_FirstMatchWins ==
  verdict.ip \in IPs =>
    IF verdict.ipBlocked
      THEN verdict.threatType = "BLOCKED_IP"
      ELSE Matches(verdict.request) # {} =>
             /\ ~verdict.thrown
             /\ verdict.blocked
             /\ verdict.threatType = FirstThreat(Matches(verdict.request))


\* The record calls made for the name after call number i.
LaterCalls(i) ==
  {j \in DOMAIN metrics.log : j > i /\ metrics.log[j].name = metrics.log[i].name}

Retained(i) == Cardinality(LaterCalls(i)) < maxInMemoryPoints

Retrievable(call) ==
  LET found == get(metrics.store, call.name, NoTime, NoTime, maxInMemoryPoints)
  IN \E k \in DOMAIN found :
       /\ found[k].id = call.id
       /\ found[k].name = call.name
       /\ found[k].value = call.value
       /\ found[k].tags = call.tags

\* C28: every recorded sample that the per-name cap has not yet evicted is
\* returned by a query of its name for up to maxInMemoryPoints samples, with
\* the name, value and tags it was recorded with; and getStats of a name
\* without samples is null.
C28_RoundTrip ==
  /\ \A i \in DOMAIN metrics.log : Retained(i) => Retrievable(metrics.log[i])
  /\ \A name \in MetricNames :
       metrics.store[name] = <<>>
         => getStats(metrics.store, name, NoTime, NoTime, defaultLimit) = [kind |-> "null"]

\* A tagged sample is retained behind a later one of its name, an earlier one
\* is evicted, and the other name's statistics were asked for and are null.
C28_Witness ==
  /\ \E i \in DOMAIN metrics.log :
       /\ Retained(i)
       /\ LaterCalls(i) # {}
       /\ metrics.log[i].tags # ""
  /\ \E i \in DOMAIN metrics.log : ~Retained(i)
  /\ metrics.answer.kind = "getStats"
  /\ metrics.answer.stats.kind = "null"

InRange(m, startTime, endTime) ==
  /\ startTime # NoTime => m.timestamp >= startTime
  /\ endTime # NoTime => m.timestamp <= endTime

Newest(list, limit) ==
  IF limit >= Len(list) THEN list ELSE SubSeq(list, Len(list) - limit + 1, Len(list))

\* C29: for every name, time range and limit, 0 included, get returns the
\* samples of that name within the range in recording order, the newest
\* `limit` of them when more qualify, and never more than `limit`.
C29_QueryWithinLimit ==
  \A name \in MetricNames : \A startTime, endTime \in QueryTimes : \A limit \in QueryLimits :
    LET found == get(metrics.store, name, startTime, endTime, limit)
        qualify == SelectSeq(metrics.store[name], LAMBDA m : InRange(m, startTime, endTime))
    IN /\ Len(found) <= limit
       /\ found = Newest(qualify, limit)

C30_CapHolds == \A name \in MetricNames : Len(metrics.store[name]) <= maxInMemoryPoints

C30_RecordStep ==
  \A name \in MetricNames :
    LET old == metrics.store[name]
        new == metrics'.store[name]
    IN new # old =>
         /\ \A other \in MetricNames \ {name} : metrics'.store[other] = metrics.store[other]
         /\ new[Len(new)].id = Len(metrics'.log)
         /\ IF Len(old) < maxInMemoryPoints
              THEN SubSeq(new, 1, Len(new) - 1) = old
              ELSE SubSeq(new, 1, Len(new) - 1) = Tail(old)

\* C30: no name ever holds more than maxInMemoryPoints samples; a record
\* that would exceed the cap drops exactly the oldest sample of that name,
\* and no record touches the samples of another name.
C30_OldestEvicted == []C30_CapHolds /\ [][C30_RecordStep]_vars

\* One name is at its cap with its first sample evicted, the other name's
\* samples in place.
C30_Witness ==
  \E name \in MetricNames :
    /\ Len(metrics.store[name]) = maxInMemoryPoints
    /\ \E i \in DOMAIN metrics.log :
         metrics.log[i].name = name /\ ~Retained(i)
    /\ \E other \in MetricNames \ {name} : metrics.store[other] # <<>>


\* The events published while subscriber i was subscribed, in publish order.
PublishedFor(i) ==
  SelectSeq([p \in 1..Len(publishLog) |-> publishLog[p].event],
            LAMBDA e : publishLog[e].listeners >= i)

\* The events a subscriber was called with, repeats of an event dropped.
RECURSIVE FirstDeliveries(_)
FirstDeliveries(calls) ==
  IF calls = <<>> THEN <<>>
  ELSE LET before == FirstDeliveries(SubSeq(calls, 1, Len(calls) - 1))
           e == calls[Len(calls)]
       IN IF \E k \in DOMAIN before : before[k] = e THEN before ELSE Append(before, e)

\* C31: every handler has been called at least once with each event published
\* while it was subscribed, mirror sent, failed or absent, and its first calls
\* follow the publish order.
C31_DeliveredInOrder ==
  \A i \in 1..Len(subs) : FirstDeliveries(received[i]) = PublishedFor(i)


\* The alert has left the pending set with its handling reported: a diagnosis
\* or the agent's error was published for it.
Handled(a) ==
  /\ a \notin pendingDiagnoses
  /\ \E e \in BagToSet(published) :
       e.alertId = a /\ e.channel \in {"diagnosis", "agent-error"}

\* C32: handling of one alert never hangs: an alert in the pending set of the
\* Diagnostic Agent is in time removed from it with its handling reported,
\* whether or not the reasoning call returns.
C32_HandlingEnds ==
  \A a \in 1..MaxAlerts : (a \in pendingDiagnoses) ~> Handled(a)

\* The same for the rule table alone, which has no call to wait for.
C32_RuleHandlingEnds ==
  \A a \in 1..MaxAlerts : (~anthropic /\ a \in pendingDiagnoses) ~> Handled(a)

\* How many events of a channel were published for an alert.
PublishedCount(channel, a) ==
  LET evs == {e \in BagToSet(published) : e.channel = channel /\ e.alertId = a}
  IN BagCardinality([e \in evs |-> published[e]])

\* C33: each alert has at most one published diagnosis and at most one
\* published repair request, also when the bus delivers its alert event to
\* the Diagnostic Agent both locally and through the mirror.
C33_OneDiagnosisPerAlert ==
  \A a \in DOMAIN alerts :
    /\ PublishedCount("diagnosis", a) <= 1
    /\ PublishedCount("repair-request", a) <= 1

\* The same on the in-memory bus, where an alert event is delivered once.
C33_OneDiagnosisInMemory == ~isRedisMode => C33_OneDiagnosisPerAlert

\* One alert diagnosed twice, each time with a repair request.
C33_NeverRequestedTwice ==
  \A a \in DOMAIN alerts : PublishedCount("repair-request", a) <= 1

\* The diagnoses published for alerts of one (type, component) pair that the
\* reasoning path computed, and how many there are.
FreshDiagnoses(key) ==
  {e \in BagToSet(published) :
     /\ e.channel = "diagnosis"
     /\ CacheKey(alerts[e.alertId]) = key
     /\ ~e.diagnosis.fromCache}

ReasoningRuns(key) ==
  BagCardinality([e \in FreshDiagnoses(key) |-> published[e]])

\* C34: within the lifetime of a cache entry the reasoning path answers at
\* most once per (type, component) pair; every other alert of the pair,
\* alerts that arrive while the first diagnosis is computed included, gets
\* the cached diagnosis.
C34_ReasonedOncePerPair ==
  \A a \in DOMAIN alerts : ReasoningRuns(CacheKey(alerts[a])) <= 1

\* An alert whose pair has a cache entry when diagnose() looks never enters
\* the reasoning path.
C34_CachedWhenPresent ==
  [][\A t \in BagToSet(diagTasks) :
       (Diagnose(t) /\ CacheKey(alerts[t.alertId]) \in DOMAIN diagnosisCache)
         => /\ ~BagIn([t EXCEPT !.stage = "reasoning"], diagTasks')
            /\ \E e \in BagToSet(published') :
                 /\ e.channel = "diagnosis" /\ e.alertId = t.alertId
                 /\ e.diagnosis.fromCache]_vars

\* The outcomes learnFromRepair has taken into a pattern: one pattern-learned
\* event each, with the alert and the diagnosis of the repair.
LearnedOutcomes == {e \in BagToSet(published) : e.channel = "pattern-learned"}

\* The four values the claim keys a pattern by.
OriginSignature(e) ==
  <<alerts[e.alertId].type, alerts[e.alertId].component, e.diagnosis.fixType,
    e.diagnosis.severity>>

\* C35: two repair outcomes have updated the same pattern exactly when their
\* alerts and diagnoses agree on alert type, component, fix type and
\* severity; outcomes of alerts of different type or component never share a
\* pattern.
C35_PatternKeyedByOrigin ==
  \A e1, e2 \in LearnedOutcomes :
    (PatternHash(e1.diagnosis) = PatternHash(e2.diagnosis))
      <=> (OriginSignature(e1) = OriginSignature(e2))

\* Outcomes that agree on all four values do update one pattern.
C35_SameOriginSamePattern ==
  \A e1, e2 \in LearnedOutcomes :
    (OriginSignature(e1) = OriginSignature(e2))
      => (PatternHash(e1.diagnosis) = PatternHash(e2.diagnosis))

\* The escalation alerts created for the low-confidence diagnosis of an
\* alert that is itself an escalation alert.
ChainedEscalations ==
  {b \in DOMAIN alerts :
     /\ alerts[b].type = "ESCALATION"
     /\ alerts[alerts[b].origin].type = "ESCALATION"}

\* C36: a low-confidence diagnosis causes a bounded number of escalation
\* alerts: the escalation alert is diagnosed like any alert on the alert
\* channel, and its diagnosis, from the reasoning backend, the rule table or
\* the cache, never raises a further escalation alert.
C36_EscalationEnds == ChainedEscalations = {}

\* With the rule table as backend no escalation alert is ever created.
C36_RulesNeverEscalate ==
  ~anthropic => \A b \in DOMAIN alerts : alerts[b].type # "ESCALATION"

\* The analysis passes that began while the agent was stopped.
PassesWhileStopped ==
  {i \in DOMAIN predictive.passes : ~predictive.passes[i].running}

\* C37: between the return of stop and the next start the agent runs no
\* analysis pass: every pass of runPredictions began while the agent was
\* running, passes begun by a timer armed before stop was called included.
C37_NoPassWhileStopped == PassesWhileStopped = {}

\* The passes the interval begins all begin while the agent is running.
C37_IntervalPassesWhileRunning ==
  \A i \in DOMAIN predictive.passes :
    predictive.passes[i].by = "interval" => predictive.passes[i].running

\* How many rows the flushes have written for a sample.
RowsOf(id) == Cardinality({i \in DOMAIN metrics.rows : metrics.rows[i] = id})

\* C38: the flushes write each sample once: no sample has two rows, and
\* every sample recorded before the last flush has its row.
C38_EachSampleWrittenOnce ==
  /\ \A id \in DOMAIN metrics.log : RowsOf(id) <= 1
  /\ \A id \in 1..metrics.flushedTo : RowsOf(id) >= 1

\* Whatever the table's keys, a sample recorded before the last flush has
\* its row.
C38_NoneLeftOut == \A id \in 1..metrics.flushedTo : RowsOf(id) >= 1

\* The newest sample of each metric at a flush does get a row.
C38_NewestWritten ==
  \A name \in MetricNames :
    \A i \in DOMAIN metrics.store[name] :
      (i = Len(metrics.store[name]) /\ metrics.store[name][i].id <= metrics.flushedTo)
        => RowsOf(metrics.store[name][i].id) >= 1

\* The breaker is CLOSED exactly while its failure count is below the
\* threshold.
BreakerOpensAtThreshold ==
  (breaker.state = "CLOSED") <=> (breaker.failures < failureThreshold)

\* The state changes of the cycle CLOSED -> OPEN -> HALF_OPEN -> CLOSED, with
\* the way back from HALF_OPEN to OPEN.
BreakerCycleStep ==
  breaker'.state # breaker.state
    => <<breaker.state, breaker'.state>> \in
         {<<"CLOSED", "OPEN">>, <<"OPEN", "HALF_OPEN">>, <<"HALF_OPEN", "OPEN">>,
          <<"HALF_OPEN", "CLOSED">>}

\* A call made while OPEN before resetTimeout has passed since the last
\* failure does not reach fn, and the breaker stays OPEN.
BreakerRejectStep ==
  (/\ breaker.state = "OPEN"
   /\ breaker.now - breaker.lastFailure <= resetTimeout)
    => /\ breaker'.calls = breaker.calls
       /\ breaker'.state = "OPEN"

\* A failure recorded in HALF_OPEN opens the breaker.
BreakerHalfOpenFailureStep ==
  (breaker.state = "HALF_OPEN" /\ breaker'.failures > breaker.failures)
    => breaker'.state = "OPEN"

\* The breaker closes from HALF_OPEN with closeAfter successes seen since it
\* last entered HALF_OPEN.
BreakerCloseStep ==
  (breaker.state = "HALF_OPEN" /\ breaker'.state = "CLOSED")
    => breaker'.entered >= closeAfter

\* C39: the breaker follows CLOSED -> OPEN -> HALF_OPEN -> CLOSED: it is open
\* once the failure count has reached failureThreshold; while OPEN and until
\* resetTimeout has passed since the last failure a call is rejected without
\* reaching the wrapped function; a failure in HALF_OPEN opens it again; and
\* it closes only after 3 successful calls since it last entered HALF_OPEN.
C39_BreakerCycle ==
  /\ []BreakerOpensAtThreshold
  /\ [][/\ BreakerCycleStep
        /\ BreakerRejectStep
        /\ BreakerHalfOpenFailureStep
        /\ BreakerCloseStep]_vars

\* All of it but the count of successes before closing.
C39_OpensRejectsReopens ==
  /\ []BreakerOpensAtThreshold
  /\ [][/\ BreakerCycleStep
        /\ BreakerRejectStep
        /\ BreakerHalfOpenFailureStep]_vars

\* The count alone.
C39_ClosesAfterThree == [][BreakerCloseStep]_vars

====
